---------------------------- MODULE Spec2Model ----------------------------
(***************************************************************************)
(* A model of the formula evaluation engine of ai-sheets                   *)
(* (src/lib/formula-engine.ts).                                            *)
(*                                                                         *)
(* Text is modelled character by character: a JavaScript string is a       *)
(* sequence of one-character strings, so that the regular expressions and  *)
(* the string surgery of the engine are computed the way the engine        *)
(* computes them.  A JavaScript value is a record [t, v] whose tag t is    *)
(* one of "num", "nan", "inf", "ninf" (typeof "number"), "str", "bool",    *)
(* "null", "undefined"; a thrown exception is the pseudo value with tag    *)
(* "throw".  The call stack is finite: evaluateFormula and                 *)
(* evaluateExpression take the number d of frames still available and      *)
(* throw a RangeError when none is left.                                   *)
(***************************************************************************)
EXTENDS Integers, Sequences, FiniteSets, TLC

VARIABLES workbook, formula, sheetId, returnValue, pc,
          history, currentIndex, sharedWith, evaluatingSet, callStack

\* the state of the undo history of useWorkbookHistory
historyVars == <<history, currentIndex, sharedWith>>

\* the set of cell keys one evaluation has in flight and its open calls
guardVars == <<evaluatingSet, callStack>>

vars == <<workbook, formula, sheetId, returnValue, pc, historyVars, guardVars>>

(***************************************************************************)
(* Bounds                                                                  *)
(***************************************************************************)
\* frames of evaluateFormula / evaluateExpression the call stack can hold
MaxDepth == 9

(***************************************************************************)
(* Characters                                                              *)
(***************************************************************************)
Upper == {"A","B","C","D","E","F","G","H","I","J","K","L","M",
          "N","O","P","Q","R","S","T","U","V","W","X","Y","Z"}

Lower == {"a","b","c","d","e","f","g","h","i","j","k","l","m",
          "n","o","p","q","r","s","t","u","v","w","x","y","z"}

Digit == {"0","1","2","3","4","5","6","7","8","9"}

\* \w of a JavaScript regular expression
WordChar == Upper \cup Lower \cup Digit \cup {"_"}

\* \s of a JavaScript regular expression (the model's texts hold blanks only)
SpaceChar == {" "}

DigitVal(c) ==
  CASE c = "0" -> 0 [] c = "1" -> 1 [] c = "2" -> 2 [] c = "3" -> 3
    [] c = "4" -> 4 [] c = "5" -> 5 [] c = "6" -> 6 [] c = "7" -> 7
    [] c = "8" -> 8 [] c = "9" -> 9

DigitChar(n) ==
  CASE n = 0 -> "0" [] n = 1 -> "1" [] n = 2 -> "2" [] n = 3 -> "3"
    [] n = 4 -> "4" [] n = 5 -> "5" [] n = 6 -> "6" [] n = 7 -> "7"
    [] n = 8 -> "8" [] n = 9 -> "9"

\* colStr.charCodeAt(i) - 64
UpperCode(c) ==
  CASE c = "A" -> 1 [] c = "B" -> 2 [] c = "C" -> 3 [] c = "D" -> 4
    [] c = "E" -> 5 [] c = "F" -> 6 [] c = "G" -> 7 [] c = "H" -> 8
    [] c = "I" -> 9 [] c = "J" -> 10 [] c = "K" -> 11 [] c = "L" -> 12
    [] c = "M" -> 13 [] c = "N" -> 14 [] c = "O" -> 15 [] c = "P" -> 16
    [] c = "Q" -> 17 [] c = "R" -> 18 [] c = "S" -> 19 [] c = "T" -> 20
    [] c = "U" -> 21 [] c = "V" -> 22 [] c = "W" -> 23 [] c = "X" -> 24
    [] c = "Y" -> 25 [] c = "Z" -> 26

LowerOf(c) ==
  CASE c = "A" -> "a" [] c = "B" -> "b" [] c = "C" -> "c" [] c = "D" -> "d"
    [] c = "E" -> "e" [] c = "F" -> "f" [] c = "G" -> "g" [] c = "H" -> "h"
    [] c = "I" -> "i" [] c = "J" -> "j" [] c = "K" -> "k" [] c = "L" -> "l"
    [] c = "M" -> "m" [] c = "N" -> "n" [] c = "O" -> "o" [] c = "P" -> "p"
    [] c = "Q" -> "q" [] c = "R" -> "r" [] c = "S" -> "s" [] c = "T" -> "t"
    [] c = "U" -> "u" [] c = "V" -> "v" [] c = "W" -> "w" [] c = "X" -> "x"
    [] c = "Y" -> "y" [] c = "Z" -> "z"
    [] OTHER -> c

(***************************************************************************)
(* JavaScript values                                                       *)
(***************************************************************************)
Num(n) == [t |-> "num", v |-> n]
NaN == [t |-> "nan", v |-> 0]
Infinity == [t |-> "inf", v |-> 0]
NegInfinity == [t |-> "ninf", v |-> 0]
Str(s) == [t |-> "str", v |-> s]
Bool(b) == [t |-> "bool", v |-> b]
Null == [t |-> "null", v |-> 0]
Undefined == [t |-> "undefined", v |-> 0]
\* a thrown exception, on its way to the nearest try/catch
Thrown(kind) == [t |-> "throw", v |-> kind]
\* a number outside the integers, which the model does not compute
Unmodelled == [t |-> "unmodelled", v |-> 0]

IsThrow(x) == x.t = "throw"
IsNumber(x) == x.t \in {"num", "nan", "inf", "ninf"}
IsString(x) == x.t = "str"

\* the error sentinels
ErrError == Str(<<"#","E","R","R","O","R","!">>)
ErrRef == Str(<<"#","R","E","F","!">>)
ErrNA == Str(<<"#","N","/","A">>)
ErrCircular == Str(<<"#","C","I","R","C","U","L","A","R","!">>)
ErrDiv0 == Str(<<"#","D","I","V","/","0","!">>)
ErrNum == Str(<<"#","N","U","M","!">>)

\* typeof x === 'string' && x.startsWith('#')
IsErrorValue(x) == IsString(x) /\ Len(x.v) > 0 /\ x.v[1] = "#"

\* Boolean(x)
Truthy(x) ==
  CASE x.t = "num" -> x.v # 0
    [] x.t = "str" -> x.v # <<>>
    [] x.t = "bool" -> x.v
    [] x.t \in {"inf", "ninf"} -> TRUE
    [] OTHER -> FALSE

\* a === b
StrictEquals(a, b) ==
  /\ a.t = b.t
  /\ a.t # "nan"
  /\ a.v = b.v

(***************************************************************************)
(* Strings                                                                 *)
(***************************************************************************)
\* s.substring(a, b), with 0-based a and b inside the string
Substring(s, a, b) == SubSeq(s, a + 1, b)

\* s.substring(a)
SubstringFrom(s, a) == SubSeq(s, a + 1, Len(s))

Chars(s) == {s[i] : i \in 1..Len(s)}

RECURSIVE TrimLeft(_)
TrimLeft(s) ==
  IF s # <<>> /\ Head(s) \in SpaceChar THEN TrimLeft(Tail(s)) ELSE s

RECURSIVE TrimRight(_)
TrimRight(s) ==
  IF s # <<>> /\ s[Len(s)] \in SpaceChar
  THEN TrimRight(SubSeq(s, 1, Len(s) - 1))
  ELSE s

\* s.trim()
Trim(s) == TrimRight(TrimLeft(s))

\* s.startsWith(p, i), i 0-based
StartsWithAt(s, p, i) ==
  /\ i + Len(p) <= Len(s)
  /\ \A k \in 1..Len(p) : s[i + k] = p[k]

\* s.indexOf(p, from); -1 when p does not occur
RECURSIVE IndexOfFrom(_, _, _)
IndexOfFrom(s, p, i) ==
  IF i + Len(p) > Len(s) THEN -1
  ELSE IF StartsWithAt(s, p, i) THEN i
  ELSE IndexOfFrom(s, p, i + 1)

\* s.includes(p)
Includes(s, p) == IndexOfFrom(s, p, 0) >= 0

\* s.split(sep) for a non-empty separator
RECURSIVE Split(_, _)
Split(s, sep) ==
  LET i == IndexOfFrom(s, sep, 0)
  IN IF i < 0 THEN <<s>>
     ELSE <<Substring(s, 0, i)>> \o Split(SubstringFrom(s, i + Len(sep)), sep)

\* the end (0-based, exclusive) of the longest run of characters of class
\* cls that starts at 0-based position i
RunEnd(s, i, cls) ==
  LET stops == {j \in i..(Len(s) - 1) : s[j + 1] \notin cls}
  IN IF stops # {} THEN CHOOSE j \in stops : \A k \in stops : j <= k
     ELSE IF i < Len(s) THEN Len(s) ELSE i

\* s.toLowerCase()
ToLowerCase(s) == [i \in 1..Len(s) |-> LowerOf(s[i])]

\* s with every character of class cls removed: s.replace(/[cls]/g, '')
RemoveChars(s, cls) ==
  LET Kept(c) == c \notin cls
  IN SelectSeq(s, Kept)

\* the decimal digits of a natural number
RECURSIVE NatToStr(_)
NatToStr(n) ==
  IF n < 10 THEN <<DigitChar(n)>>
  ELSE NatToStr(n \div 10) \o <<DigitChar(n % 10)>>

\* the value of a non-empty string of decimal digits
RECURSIVE DigitsToNat(_)
DigitsToNat(s) ==
  IF s = <<>> THEN 0
  ELSE DigitsToNat(SubSeq(s, 1, Len(s) - 1)) * 10 + DigitVal(s[Len(s)])

(***************************************************************************)
(* Numbers.  A finite number of the model is an integer; a result that is  *)
(* not an integer is Unmodelled, and no checked input produces one.        *)
(***************************************************************************)
IsUnmodelled(x) == x.t = "unmodelled"

Abs(n) == IF n < 0 THEN -n ELSE n

\* the sign of a number value that is not NaN, a zero counting as positive
SignOf(a) ==
  CASE a.t = "inf" -> 1
    [] a.t = "ninf" -> -1
    [] OTHER -> IF a.v < 0 THEN -1 ELSE 1

SignedInfinity(sign) == IF sign < 0 THEN NegInfinity ELSE Infinity

\* -a
JsNeg(a) ==
  CASE a.t = "num" -> Num(-a.v)
    [] a.t = "inf" -> NegInfinity
    [] a.t = "ninf" -> Infinity
    [] OTHER -> a

\* a + b on numbers
JsAdd(a, b) ==
  CASE IsUnmodelled(a) \/ IsUnmodelled(b) -> Unmodelled
    [] a.t = "nan" \/ b.t = "nan" -> NaN
    [] a.t = "num" /\ b.t = "num" -> Num(a.v + b.v)
    [] a.t = "num" -> b
    [] b.t = "num" -> a
    [] a.t = b.t -> a
    [] OTHER -> NaN

\* a - b on numbers
JsSub(a, b) == JsAdd(a, JsNeg(b))

\* a * b on numbers
JsMul(a, b) ==
  CASE IsUnmodelled(a) \/ IsUnmodelled(b) -> Unmodelled
    [] a.t = "nan" \/ b.t = "nan" -> NaN
    [] a.t = "num" /\ b.t = "num" -> Num(a.v * b.v)
    [] (a.t = "num" /\ a.v = 0) \/ (b.t = "num" /\ b.v = 0) -> NaN
    [] OTHER -> SignedInfinity(SignOf(a) * SignOf(b))

\* a / b on numbers
JsDiv(a, b) ==
  CASE IsUnmodelled(a) \/ IsUnmodelled(b) -> Unmodelled
    [] a.t = "nan" \/ b.t = "nan" -> NaN
    [] a.t = "num" /\ b.t = "num" ->
         IF b.v = 0
         THEN (IF a.v = 0 THEN NaN ELSE SignedInfinity(SignOf(a)))
         ELSE IF Abs(a.v) % Abs(b.v) = 0
         THEN Num(SignOf(a) * SignOf(b) * (Abs(a.v) \div Abs(b.v)))
         ELSE Unmodelled
    [] a.t = "num" -> Num(0)
    [] b.t = "num" -> SignedInfinity(SignOf(a) * SignOf(b))
    [] OTHER -> NaN

RECURSIVE IntPow(_, _)
IntPow(a, n) == IF n = 0 THEN 1 ELSE a * IntPow(a, n - 1)

\* a ** b on numbers
JsPow(a, b) ==
  IF a.t = "num" /\ b.t = "num" /\ b.v >= 0 /\ b.v <= 8 /\ Abs(a.v) <= 10
  THEN Num(IntPow(a.v, b.v))
  ELSE Unmodelled

\* a < b on numbers (false when either is NaN)
JsLess(a, b) ==
  CASE a.t = "nan" \/ b.t = "nan" -> FALSE
    [] a.t = "num" /\ b.t = "num" -> a.v < b.v
    [] a.t = "ninf" -> b.t # "ninf"
    [] b.t = "inf" -> a.t # "inf"
    [] OTHER -> FALSE

JsEqNum(a, b) == a.t = b.t /\ a.t # "nan" /\ a.v = b.v

JsLessEq(a, b) == JsLess(a, b) \/ JsEqNum(a, b)

\* isNaN(x) for a number x
IsNaN(x) == x.t = "nan"

InfinityText == <<"I","n","f","i","n","i","t","y">>

\* String(x)
String(x) ==
  CASE x.t = "num" -> IF x.v < 0 THEN <<"-">> \o NatToStr(-x.v) ELSE NatToStr(x.v)
    [] x.t = "nan" -> <<"N","a","N">>
    [] x.t = "inf" -> InfinityText
    [] x.t = "ninf" -> <<"-">> \o InfinityText
    [] x.t = "str" -> x.v
    [] x.t = "bool" -> IF x.v THEN <<"t","r","u","e">> ELSE <<"f","a","l","s","e">>
    [] x.t = "null" -> <<"n","u","l","l">>
    [] x.t = "undefined" -> <<"u","n","d","e","f","i","n","e","d">>
    [] OTHER -> <<"?">>

\* Number.parseFloat(s): the longest numeric prefix after leading blanks.  A
\* decimal of 310 or more integer digits (leading zeros apart) is at least
\* 1e309, above the largest double (about 1.8e308), and converts to Infinity.
parseFloat(s) ==
  LET HasExponent(u, f) ==
        /\ f + 1 < Len(u)
        /\ u[f + 1] \in {"e", "E"}
        /\ \/ u[f + 2] \in Digit
           \/ /\ u[f + 2] \in {"+", "-"}
              /\ f + 2 < Len(u)
              /\ u[f + 3] \in Digit
      Fraction(sign, u, e, f) ==
        IF e = 0 /\ f <= e + 1 THEN NaN
        ELSE IF HasExponent(u, f) THEN Unmodelled
        ELSE IF e - RunEnd(u, 0, {"0"}) >= 310 THEN SignedInfinity(sign)
        ELSE IF Chars(Substring(u, e + 1, f)) \ {"0"} # {} THEN Unmodelled
        ELSE Num(sign * DigitsToNat(Substring(u, 0, e)))
      Integer(sign, u, e) ==
        Fraction(sign, u, e,
                 IF e < Len(u) /\ u[e + 1] = "." THEN RunEnd(u, e + 1, Digit) ELSE e)
      Unsigned(sign, u) ==
        IF StartsWithAt(u, InfinityText, 0) THEN SignedInfinity(sign)
        ELSE Integer(sign, u, RunEnd(u, 0, Digit))
      Signed(t, signed) ==
        Unsigned(IF signed /\ t[1] = "-" THEN -1 ELSE 1, IF signed THEN Tail(t) ELSE t)
      Trimmed(t) == Signed(t, t # <<>> /\ t[1] \in {"+", "-"})
  IN Trimmed(TrimLeft(s))

\* parseInt(s): the longest decimal integer prefix after leading blanks
parseInt(s) ==
  LET Integer(sign, u, e) ==
        IF e = 0 THEN NaN
        ELSE IF e < Len(u) /\ u[1] = "0" /\ e = 1 /\ u[2] \in {"x", "X"} THEN Unmodelled
        ELSE Num(sign * DigitsToNat(Substring(u, 0, e)))
      Unsigned(sign, u) == Integer(sign, u, RunEnd(u, 0, Digit))
      Signed(t, signed) ==
        Unsigned(IF signed /\ t[1] = "-" THEN -1 ELSE 1, IF signed THEN Tail(t) ELSE t)
      Trimmed(t) == Signed(t, t # <<>> /\ t[1] \in {"+", "-"})
  IN Trimmed(TrimLeft(s))

\* x / 100 for the percent notations
DivideBy100(x) == JsDiv(x, Num(100))

\* toNumber(value)
toNumber(value) ==
  LET OrZero(num) == IF IsNaN(num) THEN Num(0) ELSE num
      Percent(percentNum) ==
        IF IsNaN(percentNum) THEN Num(0) ELSE DivideBy100(percentNum)
      Cleaned(cleanValue) ==
        IF cleanValue # <<>> /\ cleanValue[Len(cleanValue)] = "%"
        THEN Percent(parseFloat(SubSeq(cleanValue, 1, Len(cleanValue) - 1)))
        ELSE OrZero(parseFloat(cleanValue))
  IN IF IsNumber(value) \/ IsUnmodelled(value) THEN value
     ELSE IF IsString(value)
     THEN Cleaned(RemoveChars(value.v, {"$", ","} \cup SpaceChar))
     ELSE Num(0)

\* toString(value)
toString(value) ==
  IF value.t \in {"null", "undefined"} THEN <<>> ELSE String(value)

(***************************************************************************)
(* The workbook: sheets {id, name, data}; data maps a 0-based <<row, col>>  *)
(* to a cell {value, formula}.  A cell without a formula has formula <<>>. *)
(***************************************************************************)
Cell(value) == [value |-> value, formula |-> <<>>]

FormulaCell(f, cached) == [value |-> cached, formula |-> f]

\* the result of an id lookup that found no sheet (null)
NoSheet == ""

\* workbook.sheets.find((s) => s.id === sheetId): the sheet's index, 0 if none
RECURSIVE FindById(_, _, _)
FindById(sheets, id, i) ==
  IF i > Len(sheets) THEN 0
  ELSE IF sheets[i].id = id THEN i
  ELSE FindById(sheets, id, i + 1)

\* workbook.sheets.find(sheet => sheet.name === sheetName)
RECURSIVE FindByName(_, _, _)
FindByName(sheets, name, i) ==
  IF i > Len(sheets) THEN 0
  ELSE IF sheets[i].name = name THEN i
  ELSE FindByName(sheets, name, i + 1)

HasSheet(wb, id) == FindById(wb.sheets, id, 1) # 0

SheetOf(wb, id) == wb.sheets[FindById(wb.sheets, id, 1)]

\* sheet.data[row]?.[col] is a cell
HasCell(sheet, row, col) == <<row, col>> \in DOMAIN sheet.data

(***************************************************************************)
(* Reference parser                                                        *)
(***************************************************************************)
\* the column letters read as a plain base-26 numeral with A as zero
RECURSIVE ColumnNumberPositional(_)
ColumnNumberPositional(colStr) ==
  IF colStr = <<>> THEN 0
  ELSE ColumnNumberPositional(SubSeq(colStr, 1, Len(colStr) - 1)) * 26
       + UpperCode(colStr[Len(colStr)]) - 1

\* the bijective base-26 value of a string of capital letters
RECURSIVE ColumnNumber(_)
ColumnNumber(colStr) ==
  IF colStr = <<>> THEN 0
  ELSE ColumnNumber(SubSeq(colStr, 1, Len(colStr) - 1)) * 26
       + UpperCode(colStr[Len(colStr)])

\* cellToIndices(cell); ok = FALSE when it throws "Invalid cell reference"
cellToIndices(cell) ==
  LET Matched(cleanCell, e, f) ==
        IF e > 0 /\ f > e /\ f = Len(cleanCell)
        THEN [ok |-> TRUE,
              row |-> DigitsToNat(Substring(cleanCell, e, f)) - 1,
              col |-> ColumnNumber(Substring(cleanCell, 0, e)) - 1]
        ELSE [ok |-> FALSE, row |-> 0, col |-> 0]
      Letters(cleanCell, e) == Matched(cleanCell, e, RunEnd(cleanCell, e, Digit))
      Cleaned(cleanCell) == Letters(cleanCell, RunEnd(cleanCell, 0, Upper))
  IN Cleaned(RemoveChars(cell, {"$"}))

\* parseRange(range); ok = FALSE when cellToIndices throws
parseRange(range) ==
  LET Corners(startIndices, endIndices) ==
        [ok |-> startIndices.ok /\ endIndices.ok,
         startRow |-> startIndices.row, startCol |-> startIndices.col,
         endRow |-> endIndices.row, endCol |-> endIndices.col]
      Parts(parts) == Corners(cellToIndices(parts[1]), cellToIndices(parts[2]))
      Single(indices) == Corners(indices, indices)
  IN IF Includes(range, <<":">>) THEN Parts(Split(range, <<":">>))
     ELSE Single(cellToIndices(range))

\* the end of the longest run of characters other than c from position i
RECURSIVE RunEndNot(_, _, _)
RunEndNot(s, i, c) ==
  IF i < Len(s) /\ s[i + 1] # c THEN RunEndNot(s, i + 1, c) ELSE i

\* parseSheetReference(sheetRef, workbook): /^'([^']+)'\.(.+)$/ for a quoted
\* sheet name, split('.') into exactly two parts otherwise
parseSheetReference(sheetRef, wb) ==
  LET none == [targetSheetId |-> NoSheet, cellRef |-> <<>>]
      Found(k, cellRef) ==
        [targetSheetId |-> IF k = 0 THEN NoSheet ELSE wb.sheets[k].id,
         cellRef |-> cellRef]
      Quoted(q) ==
        IF /\ sheetRef[1] = "'"
           /\ q > 1
           /\ q + 2 < Len(sheetRef)
           /\ sheetRef[q + 1] = "'"
           /\ sheetRef[q + 2] = "."
        THEN Found(FindByName(wb.sheets, Substring(sheetRef, 1, q), 1),
                   SubstringFrom(sheetRef, q + 2))
        ELSE none
      Dotted(parts) ==
        IF Len(parts) # 2 THEN none
        ELSE Found(FindByName(wb.sheets, parts[1], 1), parts[2])
  IN IF Includes(sheetRef, <<"'">>) THEN Quoted(RunEndNot(sheetRef, 1, "'"))
     ELSE Dotted(Split(sheetRef, <<".">>))

(***************************************************************************)
(* Tokenizer / splitter                                                    *)
(***************************************************************************)
\* the quote at 0-based position i toggles the quote state
TogglesQuote(s, i) == s[i + 1] = "\"" /\ (i = 0 \/ s[i] # "\\")

RECURSIVE parseArgumentsFrom(_, _, _, _, _, _)
parseArgumentsFrom(argsStr, i, args, current, parenCount, inQuotes) ==
  LET Counted(char, q, pc1) ==
        IF ~q /\ char = "," /\ pc1 = 0
        THEN parseArgumentsFrom(argsStr, i + 1, Append(args, Trim(current)),
                                <<>>, pc1, q)
        ELSE parseArgumentsFrom(argsStr, i + 1, args, Append(current, char),
                                pc1, q)
      Quoted(char, q) ==
        Counted(char, q,
                IF q THEN parenCount
                ELSE IF char = "(" THEN parenCount + 1
                ELSE IF char = ")" THEN parenCount - 1
                ELSE parenCount)
  IN IF i >= Len(argsStr)
     THEN (IF Trim(current) # <<>> THEN Append(args, Trim(current)) ELSE args)
     ELSE Quoted(argsStr[i + 1],
                 IF TogglesQuote(argsStr, i) THEN ~inQuotes ELSE inQuotes)

\* parseArguments(argsStr)
parseArguments(argsStr) == parseArgumentsFrom(argsStr, 0, <<>>, <<>>, 0, FALSE)

RECURSIVE smartSplitFrom(_, _, _, _, _, _, _)
smartSplitFrom(expr, delimiter, i, parts, current, parenCount, inQuotes) ==
  LET Counted(char, q, pc1) ==
        IF ~q /\ char = delimiter /\ pc1 = 0
        THEN smartSplitFrom(expr, delimiter, i + 1, Append(parts, current),
                            <<>>, pc1, q)
        ELSE smartSplitFrom(expr, delimiter, i + 1, parts,
                            Append(current, char), pc1, q)
      Quoted(char, q) ==
        Counted(char, q,
                IF q THEN parenCount
                ELSE IF char = "(" THEN parenCount + 1
                ELSE IF char = ")" THEN parenCount - 1
                ELSE parenCount)
  IN IF i >= Len(expr)
     THEN (IF current # <<>> THEN Append(parts, current) ELSE parts)
     ELSE Quoted(expr[i + 1], IF TogglesQuote(expr, i) THEN ~inQuotes ELSE inQuotes)

\* smartSplit(expr, delimiter)
smartSplit(expr, delimiter) ==
  smartSplitFrom(expr, delimiter, 0, <<>>, <<>>, 0, FALSE)

\* remaining.match(/^([A-Z]+)\(/) at 0-based position i: the length of the
\* function name, 0 when there is no match
FuncNameLenAt(s, i) ==
  LET Name(e) == IF e > i /\ e < Len(s) /\ s[e + 1] = "(" THEN e - i ELSE 0
  IN Name(RunEnd(s, i, Upper))

\* the scan for the matching closing parenthesis: <<pos, parenCount>> when
\* the loop  while (pos < length && parenCount > 0)  ends
RECURSIVE ScanParens(_, _, _)
ScanParens(s, pos, parenCount) ==
  IF pos < Len(s) /\ parenCount > 0
  THEN ScanParens(s, pos + 1,
                  IF s[pos + 1] = "(" THEN parenCount + 1
                  ELSE IF s[pos + 1] = ")" THEN parenCount - 1
                  ELSE parenCount)
  ELSE <<pos, parenCount>>

(***************************************************************************)
(* The regular expressions of evaluateExpression                           *)
(***************************************************************************)
\* /\$?[A-Z]+\$?\d+/ at 0-based position i: the end of the match, or -1
MatchCellRefAt(s, i) ==
  LET Dollar(p) == IF p < Len(s) /\ s[p + 1] = "$" THEN p + 1 ELSE p
      Row(j, e, k, f) == IF e > j /\ f > k THEN f ELSE -1
      Absolute(j, e, k) == Row(j, e, k, RunEnd(s, k, Digit))
      Column(j, e) == Absolute(j, e, Dollar(e))
      Start(j) == Column(j, RunEnd(s, j, Upper))
  IN Start(Dollar(i))

\* /'[^']+'\.\$?[A-Z]+\$?\d+|[A-Za-z][A-Za-z0-9_]*\.\$?[A-Z]+\$?\d+/ at i
MatchSheetRefAt(s, i) ==
  LET Quoted(q) ==
        IF /\ i < Len(s) /\ s[i + 1] = "'"
           /\ q > i + 1
           /\ q + 1 < Len(s)
           /\ s[q + 1] = "'"
           /\ s[q + 2] = "."
        THEN MatchCellRefAt(s, q + 2) ELSE -1
      Bare(e) ==
        IF /\ i < Len(s) /\ s[i + 1] \in Upper \cup Lower
           /\ e < Len(s)
           /\ s[e + 1] = "."
        THEN MatchCellRefAt(s, e + 1) ELSE -1
      Either(quoted, bare) == IF quoted >= 0 THEN quoted ELSE bare
  IN Either(Quoted(RunEndNot(s, i + 1, "'")), Bare(RunEnd(s, i + 1, WordChar)))

\* result.match(/.../g) || []  for the cell reference pattern
RECURSIVE MatchAllCellRefs(_, _)
MatchAllCellRefs(s, i) ==
  LET Matched(e) ==
        IF e >= 0 THEN <<Substring(s, i, e)>> \o MatchAllCellRefs(s, e)
        ELSE MatchAllCellRefs(s, i + 1)
  IN IF i >= Len(s) THEN <<>> ELSE Matched(MatchCellRefAt(s, i))

\* result.match(/.../g) || []  for the cross-sheet reference pattern
RECURSIVE MatchAllSheetRefs(_, _)
MatchAllSheetRefs(s, i) ==
  LET Matched(e) ==
        IF e >= 0 THEN <<Substring(s, i, e)>> \o MatchAllSheetRefs(s, e)
        ELSE MatchAllSheetRefs(s, i + 1)
  IN IF i >= Len(s) THEN <<>> ELSE Matched(MatchSheetRefAt(s, i))

\* \b at 0-based position p of s
WordBoundary(s, p) ==
  (p >= 1 /\ p <= Len(s) /\ s[p] \in WordChar)
    # (p < Len(s) /\ s[p + 1] \in WordChar)

\* s.replace(new RegExp('\\b' + escaped(lit) + '\\b', 'g'), rep)
RECURSIVE ReplaceBounded(_, _, _, _)
ReplaceBounded(s, lit, rep, i) ==
  IF i >= Len(s) THEN <<>>
  ELSE IF /\ StartsWithAt(s, lit, i)
          /\ WordBoundary(s, i)
          /\ WordBoundary(s, i + Len(lit))
  THEN rep \o ReplaceBounded(s, lit, rep, i + Len(lit))
  ELSE <<s[i + 1]>> \o ReplaceBounded(s, lit, rep, i + 1)

(***************************************************************************)
(* Arithmetic evaluator.  The text handed to  new Function('return ' + e)  *)
(* is parsed as JavaScript parses it: ** binds tighter than * and /, which *)
(* bind tighter than + and -; ++ and -- are the update operators, which no *)
(* operand of these texts accepts; a unary sign before ** is a syntax      *)
(* error.                                                                  *)
(***************************************************************************)
JsFail == [ok |-> FALSE, val |-> NaN, pos |-> 0]

JsOk(val, pos) == [ok |-> TRUE, val |-> val, pos |-> pos]

CharAt(s, i) == IF i < Len(s) THEN s[i + 1] ELSE ""

RECURSIVE JsAdditive(_, _), JsAdditiveRest(_, _, _), JsMultiplicative(_, _),
          JsMultiplicativeRest(_, _, _), JsExponent(_, _), JsUnary(_, _),
          JsPrimary(_, _)

JsPrimary(s, i) ==
  LET Closed(r) == IF r.ok /\ CharAt(s, r.pos) = ")" THEN JsOk(r.val, r.pos + 1)
                   ELSE JsFail
      Number(e) == JsOk(Num(DigitsToNat(Substring(s, i, e))), e)
  IN IF CharAt(s, i) \in Digit THEN Number(RunEnd(s, i, Digit))
     ELSE IF CharAt(s, i) = "(" THEN Closed(JsAdditive(s, i + 1))
     ELSE JsFail

JsUnary(s, i) ==
  LET Signed(r) == IF ~r.ok THEN JsFail
                   ELSE JsOk(IF CharAt(s, i) = "-" THEN JsNeg(r.val) ELSE r.val, r.pos)
  IN IF CharAt(s, i) \in {"+", "-"}
     THEN IF CharAt(s, i + 1) = CharAt(s, i) THEN JsFail
          ELSE Signed(JsUnary(s, i + 1))
     ELSE JsPrimary(s, i)

JsExponent(s, i) ==
  LET Raised(r, q) == IF q.ok THEN JsOk(JsPow(r.val, q.val), q.pos) ELSE JsFail
      Base(r) == IF ~r.ok THEN JsFail
                 ELSE IF ~(CharAt(s, r.pos) = "*" /\ CharAt(s, r.pos + 1) = "*") THEN r
                 ELSE IF CharAt(s, i) \in {"+", "-"} THEN JsFail
                 ELSE Raised(r, JsExponent(s, r.pos + 2))
  IN Base(JsUnary(s, i))

JsMultiplicativeRest(s, acc, i) ==
  LET Operand(r) == IF ~r.ok THEN JsFail
                    ELSE JsMultiplicativeRest(s,
                           IF CharAt(s, i) = "*" THEN JsMul(acc, r.val)
                           ELSE JsDiv(acc, r.val),
                           r.pos)
  IN IF CharAt(s, i) \in {"*", "/"} THEN Operand(JsExponent(s, i + 1))
     ELSE JsOk(acc, i)

JsMultiplicative(s, i) ==
  LET First(r) == IF r.ok THEN JsMultiplicativeRest(s, r.val, r.pos) ELSE JsFail
  IN First(JsExponent(s, i))

JsAdditiveRest(s, acc, i) ==
  LET Operand(r) == IF ~r.ok THEN JsFail
                    ELSE JsAdditiveRest(s,
                           IF CharAt(s, i) = "+" THEN JsAdd(acc, r.val)
                           ELSE JsSub(acc, r.val),
                           r.pos)
  IN IF CharAt(s, i) \in {"+", "-"}
     THEN IF CharAt(s, i + 1) = CharAt(s, i) THEN JsFail
          ELSE Operand(JsMultiplicative(s, i + 1))
     ELSE JsOk(acc, i)

JsAdditive(s, i) ==
  LET First(r) == IF r.ok THEN JsAdditiveRest(s, r.val, r.pos) ELSE JsFail
  IN First(JsMultiplicative(s, i))

\* new Function('return ' + expr)() for a text of digits, + - * / ( );
\* a text with . $ % , or a comment is outside the model
JsEvaluate(expr) ==
  LET Parsed(r) == IF r.ok /\ r.pos = Len(expr) THEN r.val ELSE Thrown("SyntaxError")
  IN IF \/ Chars(expr) \cap {".", "$", "%", ","} # {}
        \/ Includes(expr, <<"/", "/">>)
        \/ Includes(expr, <<"/", "*">>)
     THEN Unmodelled
     ELSE Parsed(JsAdditive(expr, 0))

\* /^-?\d+(\.\d+)?$/.test(s)
IsPlainNumber(s) ==
  LET Fraction(j, e, f) == e > j /\ (f = e \/ f > e + 1) /\ f = Len(s)
      Digits(j, e) ==
        Fraction(j, e, IF CharAt(s, e) = "." THEN RunEnd(s, e + 1, Digit) ELSE e)
      Signed(j) == Digits(j, RunEnd(s, j, Digit))
  IN Signed(IF CharAt(s, 0) = "-" THEN 1 ELSE 0)

\* expr.replace(/\$([0-9,]+(\.\d+)?)/g, number without commas)
RECURSIVE StripCurrency(_, _)
StripCurrency(s, i) ==
  LET Amount(e, g) ==
        IF s[i + 1] = "$" /\ e > i + 1
        THEN RemoveChars(Substring(s, i + 1, g), {","}) \o StripCurrency(s, g)
        ELSE <<s[i + 1]>> \o StripCurrency(s, i + 1)
      Fraction(e, f) == Amount(e, IF f > e + 1 THEN f ELSE e)
      Digits(e) ==
        Fraction(e, IF CharAt(s, e) = "." THEN RunEnd(s, e + 1, Digit) ELSE e)
  IN IF i >= Len(s) THEN <<>> ELSE Digits(RunEnd(s, i + 1, Digit \cup {","}))

\* expr.replace(/(\d+(\.\d+)?)\s*%/g, String(parseFloat(number) / 100)) on a
\* text without blanks; ok = FALSE when a quotient is not an integer
RECURSIVE ConvertPercent(_, _)
ConvertPercent(s, i) ==
  LET Quotient(q, rest) ==
        [ok |-> rest.ok /\ ~IsUnmodelled(q), text |-> String(q) \o rest.text]
      Kept(rest) == [ok |-> rest.ok, text |-> <<s[i + 1]>> \o rest.text]
      Number(e, g) ==
        IF e > i /\ CharAt(s, g) = "%"
        THEN Quotient(DivideBy100(parseFloat(Substring(s, i, g))),
                      ConvertPercent(s, g + 1))
        ELSE Kept(ConvertPercent(s, i + 1))
      Fraction(e, f) == Number(e, IF f > e + 1 /\ CharAt(s, f) = "%" THEN f ELSE e)
      Digits(e) ==
        Fraction(e, IF CharAt(s, e) = "." THEN RunEnd(s, e + 1, Digit) ELSE e)
  IN IF i >= Len(s) THEN [ok |-> TRUE, text |-> <<>>] ELSE Digits(RunEnd(s, i, Digit))

\* expr.replace(/\^/g, '**')
RECURSIVE ConvertPower(_)
ConvertPower(s) ==
  IF s = <<>> THEN <<>>
  ELSE (IF Head(s) = "^" THEN <<"*", "*">> ELSE <<Head(s)>>) \o ConvertPower(Tail(s))

\* the parenthesis check of evaluateArithmetic: balanced, never negative
RECURSIVE ParensBalanced(_, _, _)
ParensBalanced(s, i, parenCount) ==
  IF parenCount < 0 THEN FALSE
  ELSE IF i >= Len(s) THEN parenCount = 0
  ELSE ParensBalanced(s, i + 1,
                      IF s[i + 1] = "(" THEN parenCount + 1
                      ELSE IF s[i + 1] = ")" THEN parenCount - 1
                      ELSE parenCount)

ArithmeticChars ==
  Digit \cup {"+", "-", "*", "/", ".", "(", ")", "$", "%", ",", " "}

\* evaluateArithmetic(expr) from its character check on; pct is the text
\* after the currency and percent conversions
EvaluateConverted(pct) ==
  LET expr3 == ConvertPower(pct.text)
      Result(res) ==
        IF IsThrow(res) THEN ErrError
        ELSE IF res.t \in {"inf", "ninf"} THEN ErrDiv0
        ELSE IF res.t = "nan" THEN ErrNum
        ELSE res
  IN IF ~pct.ok THEN Unmodelled
     ELSE IF ~(Chars(expr3) \subseteq ArithmeticChars) THEN ErrError
     ELSE IF ~ParensBalanced(expr3, 0, 0) THEN ErrError
     ELSE Result(JsEvaluate(expr3))

\* evaluateArithmetic(expr)
evaluateArithmetic(expr0) ==
  LET expr1 == RemoveChars(expr0, SpaceChar)
  IN IF IsPlainNumber(expr1) THEN parseFloat(expr1)
     ELSE IF expr1 = <<>> THEN Num(0)
     ELSE EvaluateConverted(ConvertPercent(StripCurrency(expr1, 0), 0))

(***************************************************************************)
(* Expression evaluator and function library.  d is the number of stack    *)
(* frames left; evaluatingCells is the in-flight set of <<sheetId, cellRef>>*)
(* keys.  An omitted evaluatingCells argument is the empty set: the only   *)
(* reader, getCellValue, defaults it to  new Set()  and removes every key  *)
(* it adds before it returns.                                              *)
(***************************************************************************)
fSUM == <<"S","U","M">>
fIF == <<"I","F">>
fVLOOKUP == <<"V","L","O","O","K","U","P">>
fINDEX == <<"I","N","D","E","X">>
fROUND == <<"R","O","U","N","D">>
fINDIRECT == <<"I","N","D","I","R","E","C","T">>
fMATCH == <<"M","A","T","C","H">>
fAVERAGE == <<"A","V","E","R","A","G","E">>

\* the names of the cases of evaluateFunction's switch
LibraryFunctions ==
  {
   <<"S","U","M">>, <<"A","V","E","R","A","G","E">>, <<"C","O","U","N","T">>,
   <<"C","O","U","N","T","A">>, <<"M","A","X">>, <<"M","I","N">>,
   <<"S","T","D","E","V">>, <<"V","A","R">>, <<"I","F">>,
   <<"A","N","D">>, <<"O","R">>, <<"N","O","T">>,
   <<"V","L","O","O","K","U","P">>, <<"H","L","O","O","K","U","P">>, <<"I","N","D","E","X">>,
   <<"M","A","T","C","H">>, <<"N","P","V">>, <<"I","R","R">>,
   <<"P","M","T">>, <<"P","V">>, <<"F","V">>,
   <<"T","O","D","A","Y">>, <<"N","O","W">>, <<"D","A","T","E">>,
   <<"Y","E","A","R">>, <<"M","O","N","T","H">>, <<"D","A","Y">>,
   <<"C","O","N","C","A","T","E","N","A","T","E">>, <<"L","E","F","T">>, <<"R","I","G","H","T">>,
   <<"M","I","D">>, <<"L","E","N">>, <<"U","P","P","E","R">>,
   <<"L","O","W","E","R">>, <<"T","R","I","M">>, <<"S","U","M","I","F">>,
   <<"C","O","U","N","T","I","F">>, <<"A","V","E","R","A","G","E","I","F">>, <<"R","O","U","N","D">>,
   <<"R","O","U","N","D","U","P">>, <<"R","O","U","N","D","D","O","W","N">>, <<"A","B","S">>,
   <<"S","Q","R","T">>, <<"P","O","W","E","R">>, <<"R","O","W">>,
   <<"C","O","L","U","M","N">>, <<"I","N","D","I","R","E","C","T">>}

\* the library functions this model computes
ModelledFunctions == {fSUM, fIF, fVLOOKUP, fINDEX, fROUND, fINDIRECT, fMATCH,
                      fAVERAGE}

RefErrorText == <<"#","R","E","F","!">>

\* arg.match(/[A-Z]+\d+/)
HasCellRefPattern(arg) ==
  \E k \in 1..(Len(arg) - 1) : arg[k] \in Upper /\ arg[k + 1] \in Digit

\* s.replace(c, ''): the first occurrence of character c removed
RemoveFirst(s, c) ==
  LET i == IndexOfFrom(s, <<c>>, 0)
  IN IF i < 0 THEN s ELSE Substring(s, 0, i) \o SubstringFrom(s, i + 1)

\* values.reduce((a, b) => a + b, 0)
RECURSIVE SumOf(_)
SumOf(values) ==
  IF values = <<>> THEN Num(0)
  ELSE JsAdd(SumOf(SubSeq(values, 1, Len(values) - 1)), values[Len(values)])

\* the first 0-based position at or after i where a function name followed
\* by "(" has a matching ")"; -1 if there is none
RECURSIVE FindFunctionCall(_, _)
FindFunctionCall(s, i) ==
  LET Named(n) ==
        IF n > 0 /\ ScanParens(s, i + n + 1, 1)[2] = 0 THEN i
        ELSE FindFunctionCall(s, i + 1)
  IN IF i >= Len(s) THEN -1 ELSE Named(FuncNameLenAt(s, i))

\* what a loop over references hands back: an early return of val, or the
\* text after the substitutions
Returned(val) == [ret |-> TRUE, val |-> val, res |-> <<>>]
Continued(res) == [ret |-> FALSE, val |-> Null, res |-> res]

\* String(num) for a number the model computes
NumberText(num) == IF IsUnmodelled(num) THEN <<"?">> ELSE String(num)

\* the text a resolved cell value is substituted as
ReplacementValue(cellValue) ==
  LET Text(numValue) ==
        IF IsUnmodelled(numValue) THEN <<"?">>
        ELSE IF IsNaN(numValue) THEN <<"0">> ELSE String(numValue)
  IN Text(toNumber(cellValue))

RECURSIVE evaluateFormula(_, _, _, _, _), evaluateExpression(_, _, _, _, _),
          evaluateStringConcatenation(_, _, _, _, _), ConcatenateFrom(_, _, _, _, _, _, _),
          replaceFunctionCalls(_, _, _, _, _), evaluateFunction(_, _, _, _, _, _),
          getCellValue(_, _, _, _, _), getCellValues(_, _, _, _),
          getCellValuesFrom(_, _, _, _, _, _),
          sumFunction(_, _, _, _), SumFrom(_, _, _, _, _, _),
          ifFunction(_, _, _, _, _), evaluateCondition(_, _, _, _, _),
          ConditionFrom(_, _, _, _, _, _), vlookupFunction(_, _, _, _),
          VlookupFrom(_, _, _, _, _, _),
          indexFunction(_, _, _, _), roundFunction(_, _, _, _),
          indirectFunction(_, _, _, _, _),
          averageFunction(_, _, _, _), AverageFrom(_, _, _, _, _, _, _),
          matchFunction(_, _, _, _), MatchFrom(_, _, _, _, _, _),
          SubstituteSheetRefs(_, _, _, _, _, _, _), SubstituteCellRefs(_, _, _, _, _, _, _)

\* getCellValues reading the stored value of every cell, formula or not
getCellValuesFromStored(wb, sid, range, row, col, d) ==
  LET Converted(num, rest) == IF IsNaN(num) THEN rest ELSE <<num>> \o rest
      Pushed(cellValue, rest) ==
        IF IsNumber(cellValue) \/ IsUnmodelled(cellValue) THEN <<cellValue>> \o rest
        ELSE IF IsString(cellValue) THEN Converted(parseFloat(cellValue.v), rest)
        ELSE rest
      Visited(sheet, rest) ==
        IF ~HasCell(sheet, row, col) THEN rest
        ELSE Pushed(sheet.data[<<row, col>>].value, rest)
  IN IF row > range.endRow THEN <<>>
     ELSE IF col > range.endCol
     THEN getCellValuesFrom(wb, sid, range, row + 1, range.startCol, d)
     ELSE Visited(SheetOf(wb, sid), getCellValuesFrom(wb, sid, range, row, col + 1, d))

\* getCellValues(workbook, sheetId, range): the numbers of the range
getCellValuesFrom(wb, sid, range, row, col, d) ==
  LET Converted(num, rest) == IF IsNaN(num) THEN rest ELSE <<num>> \o rest
      Pushed(cellValue, rest) ==
        IF IsNumber(cellValue) \/ IsUnmodelled(cellValue) THEN <<cellValue>> \o rest
        ELSE IF IsString(cellValue) THEN Converted(parseFloat(cellValue.v), rest)
        ELSE rest
      Caught(cell, evaluated) == IF IsThrow(evaluated) THEN cell.value ELSE evaluated
      ValueOf(cell) ==
        IF cell.formula = <<>> THEN cell.value
        ELSE Caught(cell, evaluateFormula(cell.formula, wb, sid, {}, d))
      Visited(sheet, rest) ==
        IF ~HasCell(sheet, row, col) THEN rest
        ELSE Pushed(ValueOf(sheet.data[<<row, col>>]), rest)
  IN IF row > range.endRow THEN <<>>
     ELSE IF col > range.endCol
     THEN getCellValuesFrom(wb, sid, range, row + 1, range.startCol, d)
     ELSE Visited(SheetOf(wb, sid), getCellValuesFrom(wb, sid, range, row, col + 1, d))

getCellValues(wb, sid, range, d) ==
  IF ~HasSheet(wb, sid) THEN <<>>
  ELSE getCellValuesFrom(wb, sid, range, range.startRow, range.startCol, d)

\* getCellValue without the membership test of the in-flight set
getCellValueUnguarded(wb, sid, cellRef, evaluatingCells, d) ==
  LET cellKey == <<sid, cellRef>>
      Caught(res) == IF IsThrow(res) THEN ErrError ELSE res
      Resolved(cell) ==
        IF cell.formula # <<>>
        THEN Caught(evaluateFormula(cell.formula, wb, sid, evaluatingCells \cup {cellKey}, d))
        ELSE IF Truthy(cell.value) THEN cell.value ELSE Num(0)
      Located(idx, sheet) ==
        IF ~HasCell(sheet, idx.row, idx.col) THEN Num(0)
        ELSE Resolved(sheet.data[<<idx.row, idx.col>>])
      Indexed(idx) ==
        IF ~idx.ok THEN Num(0)
        ELSE IF ~HasSheet(wb, sid) THEN Num(0)
        ELSE Located(idx, SheetOf(wb, sid))
  IN Indexed(cellToIndices(cellRef))

\* getCellValue(workbook, sheetId, cellRef, evaluatingCells)
getCellValue(wb, sid, cellRef, evaluatingCells, d) ==
  LET cellKey == <<sid, cellRef>>
      Caught(res) == IF IsThrow(res) THEN ErrError ELSE res
      Resolved(cell) ==
        IF cellKey \in evaluatingCells THEN ErrCircular
        ELSE IF cell.formula # <<>>
        THEN Caught(evaluateFormula(cell.formula, wb, sid, evaluatingCells \cup {cellKey}, d))
        ELSE IF Truthy(cell.value) THEN cell.value ELSE Num(0)
      Located(idx, sheet) ==
        IF ~HasCell(sheet, idx.row, idx.col) THEN Num(0)
        ELSE Resolved(sheet.data[<<idx.row, idx.col>>])
      Indexed(idx) ==
        IF ~idx.ok THEN Num(0)
        ELSE IF ~HasSheet(wb, sid) THEN Num(0)
        ELSE Located(idx, SheetOf(wb, sid))
  IN Indexed(cellToIndices(cellRef))

\* sumFunction(args, workbook, sheetId)
SumFrom(args, k, sum, wb, sid, d) ==
  LET Ranged(range) ==
        IF ~range.ok THEN Thrown("Error")
        ELSE SumFrom(args, k + 1, JsAdd(sum, SumOf(getCellValues(wb, sid, range, d))),
                     wb, sid, d)
      Single(arg) ==
        SumFrom(args, k + 1,
                JsAdd(sum, toNumber(IF HasCellRefPattern(arg)
                                    THEN getCellValue(wb, sid, arg, {}, d)
                                    ELSE parseFloat(arg))),
                wb, sid, d)
  IN IF k > Len(args) THEN sum
     ELSE IF Includes(args[k], <<":">>) THEN Ranged(parseRange(args[k]))
     ELSE Single(args[k])

sumFunction(args, wb, sid, d) == SumFrom(args, 1, Num(0), wb, sid, d)

\* the loop of averageFunction from the k-th argument on, with the sum and the
\* count so far
AverageFrom(args, k, sum, count, wb, sid, d) ==
  LET Added(values) ==
        AverageFrom(args, k + 1, JsAdd(sum, SumOf(values)), count + Len(values), wb, sid, d)
      Ranged(range) ==
        IF ~range.ok THEN Thrown("Error") ELSE Added(getCellValues(wb, sid, range, d))
      Counted(num) ==
        IF IsNaN(num) THEN AverageFrom(args, k + 1, sum, count, wb, sid, d)
        ELSE AverageFrom(args, k + 1, JsAdd(sum, num), count + 1, wb, sid, d)
      Single(arg) ==
        Counted(toNumber(IF HasCellRefPattern(arg)
                         THEN getCellValue(wb, sid, arg, {}, d)
                         ELSE parseFloat(arg)))
  IN IF k > Len(args) THEN (IF count > 0 THEN JsDiv(sum, Num(count)) ELSE Num(0))
     ELSE IF Includes(args[k], <<":">>) THEN Ranged(parseRange(args[k]))
     ELSE Single(args[k])

\* averageFunction(args, workbook, sheetId)
averageFunction(args, wb, sid, d) == AverageFrom(args, 1, Num(0), 0, wb, sid, d)

\* evaluateCondition(expr, workbook, sheetId, evaluatingCells): Bool or a throw
comparisonOps ==
  << <<">", "=">>, <<"<", "=">>, <<"<", ">">>, <<"!", "=">>, <<"=">>, <<">">>, <<"<">> >>

Compare(op, left, right) ==
  LET Ordered(l, r) ==
        CASE op = <<">", "=">> -> JsLessEq(r, l)
          [] op = <<"<", "=">> -> JsLessEq(l, r)
          [] op = <<">">> -> JsLess(r, l)
          [] op = <<"<">> -> JsLess(l, r)
  IN CASE op = <<"<", ">">> -> ~StrictEquals(left, right)
       [] op = <<"!", "=">> -> ~StrictEquals(left, right)
       [] op = <<"=">> -> StrictEquals(left, right)
       [] OTHER -> Ordered(toNumber(left), toNumber(right))

ConditionFrom(expr, k, wb, sid, evaluatingCells, d) ==
  LET Whole(res) ==
        IF IsThrow(res) THEN res
        ELSE IF IsErrorValue(res) THEN Bool(FALSE)
        ELSE Bool(Truthy(res))
      Compared(op, left, right) ==
        IF IsThrow(left) THEN left
        ELSE IF IsThrow(right) THEN right
        ELSE IF IsErrorValue(left) \/ IsErrorValue(right) THEN Bool(FALSE)
        ELSE Bool(Compare(op, left, right))
      Parted(op, parts) ==
        IF Len(parts) = 2
        THEN Compared(op, evaluateExpression(Trim(parts[1]), wb, sid, evaluatingCells, d),
                      evaluateExpression(Trim(parts[2]), wb, sid, evaluatingCells, d))
        ELSE ConditionFrom(expr, k + 1, wb, sid, evaluatingCells, d)
  IN IF k > Len(comparisonOps)
     THEN Whole(evaluateExpression(expr, wb, sid, evaluatingCells, d))
     ELSE IF Includes(expr, comparisonOps[k])
     THEN Parted(comparisonOps[k], Split(expr, comparisonOps[k]))
     ELSE ConditionFrom(expr, k + 1, wb, sid, evaluatingCells, d)

evaluateCondition(expr, wb, sid, evaluatingCells, d) ==
  ConditionFrom(expr, 1, wb, sid, evaluatingCells, d)

\* ifFunction(args, workbook, sheetId, evaluatingCells)
ifFunction(args, wb, sid, evaluatingCells, d) ==
  LET Chosen(condition, trueValue, falseValue) ==
        IF IsThrow(condition) THEN condition
        ELSE IF IsThrow(trueValue) THEN trueValue
        ELSE IF IsThrow(falseValue) THEN falseValue
        ELSE IF condition.v THEN trueValue ELSE falseValue
  IN IF Len(args) < 2 THEN Thrown("Error")
     ELSE Chosen(evaluateCondition(args[1], wb, sid, evaluatingCells, d),
                 IF args[2] # <<>>
                 THEN evaluateExpression(args[2], wb, sid, evaluatingCells, d)
                 ELSE Bool(TRUE),
                 IF Len(args) >= 3 /\ args[3] # <<>>
                 THEN evaluateExpression(args[3], wb, sid, evaluatingCells, d)
                 ELSE Bool(FALSE))

\* sheet.data[row]?.[col]?.value
ValueAt(sheet, row, col) ==
  IF HasCell(sheet, row, col) THEN sheet.data[<<row, col>>].value ELSE Undefined

\* vlookupFunction(args, workbook, sheetId): the scan of the first column
VlookupFrom(sheet, row, tableRange, colIndex, lookupValue, exactMatch) ==
  LET Found(cellValue) ==
        \/ StrictEquals(cellValue, lookupValue)
        \/ /\ ~Truthy(exactMatch)
           /\ Includes(ToLowerCase(toString(cellValue)), ToLowerCase(toString(lookupValue)))
      Value(returned) == IF Truthy(returned) THEN returned ELSE Str(<<>>)
      returnCol == tableRange.startCol + colIndex.v
  IN IF row > tableRange.endRow THEN ErrNA
     ELSE IF /\ Found(ValueAt(sheet, row, tableRange.startCol))
             /\ colIndex.t = "num"
             /\ returnCol <= tableRange.endCol
     THEN Value(ValueAt(sheet, row, returnCol))
     ELSE VlookupFrom(sheet, row + 1, tableRange, colIndex, lookupValue, exactMatch)

vlookupFunction(args, wb, sid, d) ==
  LET Looked(lookupValue, tableRange, exactMatch) ==
        IF IsThrow(lookupValue) THEN lookupValue
        ELSE IF ~tableRange.ok THEN Thrown("Error")
        ELSE IF IsThrow(exactMatch) THEN exactMatch
        ELSE IF ~HasSheet(wb, sid) THEN ErrNA
        ELSE VlookupFrom(SheetOf(wb, sid), tableRange.startRow, tableRange,
                         JsSub(parseInt(args[3]), Num(1)), lookupValue, exactMatch)
  IN IF Len(args) < 3 THEN Thrown("Error")
     ELSE Looked(evaluateExpression(args[1], wb, sid, {}, d),
                 parseRange(args[2]),
                 IF Len(args) >= 4 /\ args[4] # <<>>
                 THEN evaluateExpression(args[4], wb, sid, {}, d)
                 ELSE Bool(FALSE))

\* indexFunction(args, workbook, sheetId); every throw inside its try block
\* becomes "#REF!"
indexFunction(args, wb, sid, d) ==
  LET hasCol == Len(args) >= 3 /\ args[3] # <<>>
      Caught(evaluated) == IF IsThrow(evaluated) THEN ErrRef ELSE evaluated
      Resolved(cell) ==
        IF cell.formula # <<>>
        THEN Caught(evaluateFormula(cell.formula, wb, sid, {}, d))
        ELSE IF Truthy(cell.value) THEN cell.value ELSE Str(<<>>)
      Target(sheet, range, targetRow, targetCol) ==
        IF targetRow <= range.endRow /\ targetCol <= range.endCol
        THEN IF ~HasCell(sheet, targetRow, targetCol) THEN Str(<<>>)
             ELSE Resolved(sheet.data[<<targetRow, targetCol>>])
        ELSE ErrRef
      Offsets(range, rowNum, colNum) ==
        IF IsUnmodelled(rowNum) \/ IsUnmodelled(colNum) THEN Unmodelled
        ELSE IF ~HasSheet(wb, sid) THEN ErrRef
        ELSE IF JsLess(rowNum, Num(0)) \/ JsLess(colNum, Num(0)) THEN ErrRef
        ELSE IF rowNum.t # "num" \/ colNum.t # "num" THEN ErrRef
        ELSE Target(SheetOf(wb, sid), range,
                    range.startRow + rowNum.v, range.startCol + colNum.v)
      Column(range, rowNumResult, colResult) ==
        IF hasCol /\ IsThrow(colResult) THEN ErrRef
        ELSE Offsets(range, JsSub(toNumber(rowNumResult), Num(1)),
                     IF hasCol THEN JsSub(toNumber(colResult), Num(1)) ELSE Num(0))
      Row(range, rowNumResult) ==
        IF ~range.ok THEN ErrRef
        ELSE IF IsThrow(rowNumResult) THEN ErrRef
        ELSE IF IsErrorValue(rowNumResult) THEN rowNumResult
        ELSE Column(range, rowNumResult, evaluateExpression(args[3], wb, sid, {}, d))
  IN IF Len(args) < 2 THEN Thrown("Error")
     ELSE Row(parseRange(args[1]), evaluateExpression(args[2], wb, sid, {}, d))

\* roundFunction(args, workbook, sheetId), on whole numbers and a number of
\* digits >= 0, where Math.round(number * factor) / factor is the number
roundFunction(args, wb, sid, d) ==
  LET hasDigits == Len(args) >= 2 /\ args[2] # <<>>
      Rounded(number, digits) ==
        IF number.t = "num" /\ digits.t = "num" /\ digits.v >= 0 /\ digits.v <= 8
        THEN number
        ELSE Unmodelled
      Digits(numberResult, digitsResult) ==
        IF IsThrow(numberResult) THEN numberResult
        ELSE IF hasDigits /\ IsThrow(digitsResult) THEN digitsResult
        ELSE Rounded(toNumber(numberResult),
                     IF hasDigits THEN toNumber(digitsResult) ELSE Num(0))
  IN IF Len(args) < 1 THEN Thrown("Error")
     ELSE Digits(evaluateExpression(args[1], wb, sid, {}, d),
                 evaluateExpression(args[2], wb, sid, {}, d))

\* the comparison of matchFunction once both values are converted: numeric
\* when neither number is NaN, by text otherwise
ConvertedMatch(cellNum, lookupNum, cellVal, lookupVal) ==
  IF ~IsNaN(cellNum) /\ ~IsNaN(lookupNum) THEN JsEqNum(cellNum, lookupNum)
  ELSE toString(cellVal) = toString(lookupVal)

\* valuesMatch(cellVal, lookupVal) of matchFunction
valuesMatch(cellVal, lookupVal) ==
  \/ StrictEquals(cellVal, lookupVal)
  \/ ConvertedMatch(toNumber(cellVal), toNumber(lookupVal), cellVal, lookupVal)

\* the loops of matchFunction from the k-th cell of the range on: along the row
\* when the range is one row, down the first column otherwise
MatchFrom(wb, sid, range, lookupValue, k, d) ==
  LET horizontal == range.startRow = range.endRow
      row == IF horizontal THEN range.startRow ELSE range.startRow + k
      col == IF horizontal THEN range.startCol + k ELSE range.startCol
      sheet == SheetOf(wb, sid)
      Caught(cell, evaluated) == IF IsThrow(evaluated) THEN cell.value ELSE evaluated
      getEvaluatedCellValue ==
        IF ~HasCell(sheet, row, col) THEN Undefined
        ELSE IF sheet.data[<<row, col>>].formula = <<>> THEN sheet.data[<<row, col>>].value
        ELSE Caught(sheet.data[<<row, col>>],
                    evaluateFormula(sheet.data[<<row, col>>].formula, wb, sid, {}, d))
      Compared(cellValue) ==
        IF IsUnmodelled(cellValue) THEN Unmodelled
        ELSE IF valuesMatch(cellValue, lookupValue) THEN Num(k + 1)
        ELSE MatchFrom(wb, sid, range, lookupValue, k + 1, d)
  IN IF (IF horizontal THEN col > range.endCol ELSE row > range.endRow) THEN ErrNA
     ELSE Compared(getEvaluatedCellValue)

\* matchFunction(args, workbook, sheetId)
matchFunction(args, wb, sid, d) ==
  LET Ranged(lookupValue, range) ==
        IF ~range.ok THEN ErrNA
        ELSE IF ~HasSheet(wb, sid) THEN ErrNA
        ELSE MatchFrom(wb, sid, range, lookupValue, 0, d)
      Looked(lookupValue) ==
        IF IsThrow(lookupValue) THEN ErrNA
        ELSE IF IsUnmodelled(lookupValue) THEN Unmodelled
        ELSE IF IsErrorValue(lookupValue) THEN lookupValue
        ELSE Ranged(lookupValue, parseRange(args[2]))
  IN IF Len(args) < 2 THEN Thrown("Error")
     ELSE Looked(evaluateExpression(args[1], wb, sid, {}, d))

\* indirectFunction(args, workbook, sheetId, evaluatingCells)
indirectFunction(args, wb, sid, evaluatingCells, d) ==
  LET Referenced(refText, sheetForm, ref) ==
        IF sheetForm /\ ref.targetSheetId = NoSheet THEN ErrRef
        ELSE getCellValue(wb, IF sheetForm THEN ref.targetSheetId ELSE sid,
                          IF sheetForm THEN ref.cellRef ELSE refText, evaluatingCells, d)
      Named(refText) ==
        Referenced(refText, Includes(refText, <<"'">>) \/ Includes(refText, <<".">>),
                   parseSheetReference(refText, wb))
      Evaluated(res) ==
        IF IsThrow(res) \/ IsUnmodelled(res) THEN res ELSE Named(toString(res))
  IN IF Len(args) = 0 THEN ErrRef
     ELSE Evaluated(evaluateExpression(args[1], wb, sid, evaluatingCells, d))

\* evaluateFunction(funcName, argsStr, workbook, sheetId, evaluatingCells)
evaluateFunction(funcName, argsStr, wb, sid, evaluatingCells, d) ==
  LET args == parseArguments(argsStr)
  IN CASE funcName = fSUM -> sumFunction(args, wb, sid, d)
       [] funcName = fIF -> ifFunction(args, wb, sid, evaluatingCells, d)
       [] funcName = fVLOOKUP -> vlookupFunction(args, wb, sid, d)
       [] funcName = fINDEX -> indexFunction(args, wb, sid, d)
       [] funcName = fROUND -> roundFunction(args, wb, sid, d)
       [] funcName = fINDIRECT -> indirectFunction(args, wb, sid, evaluatingCells, d)
       [] funcName = fMATCH -> matchFunction(args, wb, sid, d)
       [] funcName = fAVERAGE -> averageFunction(args, wb, sid, d)
       [] funcName \in LibraryFunctions \ ModelledFunctions -> Unmodelled
       [] OTHER -> Thrown("Error")

\* replaceFunctionCalls(expr, workbook, sheetId, evaluatingCells)
replaceFunctionCalls(result, wb, sid, evaluatingCells, d) ==
  LET funcStart == FindFunctionCall(result, 0)
      n == FuncNameLenAt(result, funcStart)
      argsStart == funcStart + n + 1
      funcEnd == ScanParens(result, argsStart, 1)[1]
      Replacement(funcResult) ==
        IF IsThrow(funcResult) THEN ErrError.v ELSE NumberText(toNumber(funcResult))
  IN IF funcStart < 0 THEN result
     ELSE replaceFunctionCalls(
            Substring(result, 0, funcStart)
              \o Replacement(evaluateFunction(Substring(result, funcStart, funcStart + n),
                                              Substring(result, argsStart, funcEnd - 1),
                                              wb, sid, evaluatingCells, d))
              \o SubstringFrom(result, funcEnd),
            wb, sid, evaluatingCells, d)

\* the loop over the cross-sheet references of evaluateExpression
SubstituteSheetRefs(sheetRefs, k, result, wb, sid, evaluatingCells, d) ==
  LET Substituted(sheetRef, cellValue) ==
        IF IsErrorValue(cellValue) THEN Returned(cellValue)
        ELSE SubstituteSheetRefs(sheetRefs, k + 1,
               ReplaceBounded(result, sheetRef, ReplacementValue(cellValue), 0),
               wb, sid, evaluatingCells, d)
      Parsed(sheetRef, parsed) ==
        IF parsed.targetSheetId # NoSheet
        THEN Substituted(sheetRef, getCellValue(wb, parsed.targetSheetId, parsed.cellRef,
                                                evaluatingCells, d))
        ELSE SubstituteSheetRefs(sheetRefs, k + 1,
               ReplaceBounded(result, sheetRef, RefErrorText, 0),
               wb, sid, evaluatingCells, d)
  IN IF k > Len(sheetRefs) THEN Continued(result)
     ELSE Parsed(sheetRefs[k], parseSheetReference(sheetRefs[k], wb))

\* the loop over the cell references of evaluateExpression
SubstituteCellRefs(cellRefs, k, result, wb, sid, evaluatingCells, d) ==
  LET Substituted(cellRef, cellValue) ==
        IF IsErrorValue(cellValue) THEN Returned(cellValue)
        ELSE SubstituteCellRefs(cellRefs, k + 1,
               ReplaceBounded(result, cellRef, ReplacementValue(cellValue), 0),
               wb, sid, evaluatingCells, d)
  IN IF k > Len(cellRefs) THEN Continued(result)
     ELSE Substituted(cellRefs[k], getCellValue(wb, sid, cellRefs[k], evaluatingCells, d))

\* evaluateExpression's pass over the cross-sheet references of the text
SubstituteSheets(result, wb, sid, evaluatingCells, d) ==
  SubstituteSheetRefs(MatchAllSheetRefs(result, 0), 1, result,
                      wb, sid, evaluatingCells, d)

\* evaluateExpression's pass over the cell references of the text the
\* cross-sheet pass left, unless that pass returned
SubstituteCells(afterSheets, wb, sid, evaluatingCells, d) ==
  IF afterSheets.ret THEN afterSheets
  ELSE SubstituteCellRefs(MatchAllCellRefs(afterSheets.res, 0), 1, afterSheets.res,
                          wb, sid, evaluatingCells, d)

\* the classification of the text left after the substitutions
\* (evaluateExpression, from "Handle quoted strings" to the end)
ClassifyResult(result) ==
  LET trimmed == Trim(result)
      n == Len(trimmed)
      e == RunEnd(trimmed, 0, Digit)
      f == IF CharAt(trimmed, e) = "." THEN RunEnd(trimmed, e + 1, Digit) ELSE e
      g == IF f > e + 1 THEN f ELSE e
      OrText(plain) == IF ~IsNaN(plain) THEN plain ELSE Str(trimmed)
      OrPercent(percent) ==
        IF n > 0 /\ trimmed[n] = "%" /\ ~IsNaN(percent) THEN DivideBy100(percent)
        ELSE OrText(parseFloat(trimmed))
      OrCurrency(currency) ==
        IF n > 0 /\ trimmed[1] = "$" /\ ~IsNaN(currency) THEN currency
        ELSE OrPercent(parseFloat(RemoveFirst(trimmed, "%")))
  IN IF n >= 2 /\ trimmed[1] = "\"" /\ trimmed[n] = "\""
     THEN Str(SubSeq(trimmed, 2, n - 1))
     ELSE IF n >= 2 /\ trimmed[1] = "$" /\ IsPlainNumber(Tail(trimmed)) /\ trimmed[2] # "-"
     THEN parseFloat(Tail(trimmed))
     ELSE IF e > 0 /\ g = n - 1 /\ trimmed[n] = "%"
     THEN DivideBy100(parseFloat(SubSeq(trimmed, 1, n - 1)))
     ELSE IF IsPlainNumber(trimmed) THEN parseFloat(trimmed)
     ELSE IF Chars(trimmed) \cap {"+", "-", "*", "/", "(", ")", "^"} = {}
     THEN OrCurrency(parseFloat(RemoveChars(trimmed, {"$", ","})))
     ELSE evaluateArithmetic(result)

\* what evaluateExpression returns after the substitutions
ClassifySubstituted(afterCells) ==
  IF afterCells.ret THEN afterCells.val
  ELSE IF "?" \in Chars(afterCells.res) THEN Unmodelled
  ELSE ClassifyResult(afterCells.res)

\* the concatenation loop without the early return of an error part
ConcatenateFromEmbedding(parts, k, result, wb, sid, evaluatingCells, d) ==
  LET Appended(partResult) ==
        IF IsThrow(partResult) \/ IsUnmodelled(partResult) THEN partResult
        ELSE ConcatenateFrom(parts, k + 1, result \o toString(partResult),
                             wb, sid, evaluatingCells, d)
      Part(trimmedPart) ==
        IF trimmedPart = <<>>
        THEN ConcatenateFrom(parts, k + 1, result, wb, sid, evaluatingCells, d)
        ELSE Appended(evaluateExpression(trimmedPart, wb, sid, evaluatingCells, d))
  IN IF k > Len(parts) THEN Str(result) ELSE Part(Trim(parts[k]))

\* evaluateStringConcatenation(expr, workbook, sheetId, evaluatingCells)
ConcatenateFrom(parts, k, result, wb, sid, evaluatingCells, d) ==
  LET Appended(partResult) ==
        IF IsThrow(partResult) \/ IsUnmodelled(partResult) THEN partResult
        ELSE IF IsErrorValue(partResult) THEN partResult
        ELSE ConcatenateFrom(parts, k + 1, result \o toString(partResult),
                             wb, sid, evaluatingCells, d)
      Part(trimmedPart) ==
        IF trimmedPart = <<>>
        THEN ConcatenateFrom(parts, k + 1, result, wb, sid, evaluatingCells, d)
        ELSE Appended(evaluateExpression(trimmedPart, wb, sid, evaluatingCells, d))
  IN IF k > Len(parts) THEN Str(result) ELSE Part(Trim(parts[k]))

evaluateStringConcatenation(expr, wb, sid, evaluatingCells, d) ==
  ConcatenateFrom(smartSplit(expr, "&"), 1, <<>>, wb, sid, evaluatingCells, d)

\* evaluateExpression(expr, workbook, sheetId, evaluatingCells)
evaluateExpression(expr, wb, sid, evaluatingCells, d) ==
  LET n == FuncNameLenAt(expr, 0)
      scan == ScanParens(expr, n + 1, 1)
  IN IF d = 0 THEN Thrown("RangeError")
     ELSE IF n > 0 /\ scan[2] = 0 /\ scan[1] = Len(expr)
     THEN evaluateFunction(Substring(expr, 0, n), Substring(expr, n + 1, scan[1] - 1),
                           wb, sid, evaluatingCells, d - 1)
     ELSE IF Includes(expr, <<"&">>)
     THEN evaluateStringConcatenation(expr, wb, sid, evaluatingCells, d - 1)
     ELSE ClassifySubstituted(
            SubstituteCells(
              SubstituteSheets(
                replaceFunctionCalls(expr, wb, sid, evaluatingCells, d - 1),
                wb, sid, evaluatingCells, d - 1),
              wb, sid, evaluatingCells, d - 1))

\* evaluateFormula without its try/catch
evaluateFormulaUncaught(f, wb, sid, evaluatingCells, d) ==
  LET Result(res) == IF res.t \in {"null", "undefined"} THEN Num(0) ELSE res
  IN IF d = 0 THEN Thrown("RangeError")
     ELSE IF f = <<>> \/ Head(f) # "=" THEN Str(f)
     ELSE IF ~HasSheet(wb, sid) THEN ErrRef
     ELSE Result(evaluateExpression(Trim(Tail(f)), wb, sid, evaluatingCells, d - 1))

\* evaluateFormula looking up the sheet before it tests for "="
evaluateFormulaSheetFirst(f, wb, sid, evaluatingCells, d) ==
  LET Result(res) ==
        IF IsThrow(res) THEN ErrError
        ELSE IF res.t \in {"null", "undefined"} THEN Num(0)
        ELSE res
  IN IF d = 0 THEN Thrown("RangeError")
     ELSE IF ~HasSheet(wb, sid) THEN ErrRef
     ELSE IF f = <<>> \/ Head(f) # "=" THEN Str(f)
     ELSE Result(evaluateExpression(Trim(Tail(f)), wb, sid, evaluatingCells, d - 1))

\* evaluateFormula(formula, workbook, sheetId, currentRow, currentCol,
\* evaluatingCells); its argument f is typed string
evaluateFormula(f, wb, sid, evaluatingCells, d) ==
  LET Result(res) ==
        IF IsThrow(res) THEN ErrError
        ELSE IF res.t \in {"null", "undefined"} THEN Num(0)
        ELSE res
  IN IF d = 0 THEN Thrown("RangeError")
     ELSE IF f = <<>> \/ Head(f) # "=" THEN Str(f)
     ELSE IF ~HasSheet(wb, sid) THEN ErrRef
     ELSE Result(evaluateExpression(Trim(Tail(f)), wb, sid, evaluatingCells, d - 1))

(***************************************************************************)
(* The evaluation as a state machine: a caller holds a workbook, calls     *)
(* evaluateFormula(formula, workbook, sheetId) and receives the value.     *)
(***************************************************************************)
Call(f, wb, sid) ==
  /\ workbook = wb
  /\ formula = f
  /\ sheetId = sid
  /\ returnValue = Undefined
  /\ pc = "call"
  /\ history = <<>>
  /\ currentIndex = -1
  /\ sharedWith = -1
  /\ evaluatingSet = {}
  /\ callStack = <<>>

\* a call of evaluateFormula that stores its result as the value of cell A1
\* of the active sheet
EvaluateFormulaStoring ==
  /\ pc = "call"
  /\ returnValue' = evaluateFormula(formula, workbook, sheetId, {}, MaxDepth)
  /\ pc' = "returned"
  /\ workbook' =
       [workbook EXCEPT !.sheets =
          [k \in DOMAIN @ |->
             IF @[k].id = sheetId /\ <<0, 0>> \in DOMAIN @[k].data
             THEN [@[k] EXCEPT !.data[<<0, 0>>].value = returnValue']
             ELSE @[k]]]
  /\ UNCHANGED <<formula, sheetId, historyVars, guardVars>>

\* the caller's call of evaluateFormula returns
EvaluateFormula ==
  /\ pc = "call"
  /\ returnValue' = evaluateFormula(formula, workbook, sheetId, {}, MaxDepth)
  /\ pc' = "returned"
  /\ UNCHANGED <<workbook, formula, sheetId, historyVars, guardVars>>

Next == EvaluateFormula

\* a call of evaluateArithmetic(expr) by itself
CallArithmetic(expr) == Call(expr, [sheets |-> <<>>], "")

EvaluateArithmetic ==
  /\ pc = "call"
  /\ returnValue' = evaluateArithmetic(formula)
  /\ pc' = "returned"
  /\ UNCHANGED <<workbook, formula, sheetId, historyVars, guardVars>>

ArithmeticNext == EvaluateArithmetic

\* a call of parseArguments on the text between a function's parentheses
CallArguments(argsStr) == Call(argsStr, [sheets |-> <<>>], "")

ParseArguments ==
  /\ pc = "call"
  /\ returnValue' = [t |-> "array", v |-> parseArguments(formula)]
  /\ pc' = "returned"
  /\ UNCHANGED <<workbook, formula, sheetId, historyVars, guardVars>>

ArgumentsNext == ParseArguments

(***************************************************************************)
(* The undo history of the grid (useWorkbookHistory).  An entry holds a    *)
(* deep copy of a workbook and the name of the action; its timestamp is    *)
(* never read and is left out.  currentIndex is 0-based, -1 when the       *)
(* history is empty.  undo and redo hand the entry's own workbook object   *)
(* to the grid: sharedWith is the 0-based index of the entry whose row     *)
(* arrays the grid's workbook shares, -1 when it shares none.              *)
(***************************************************************************)
\* the number of entries the history keeps
MaxHistoryEntries == 50

\* JSON.parse(JSON.stringify(wb)): NaN and the infinities become null
JsonClone(wb) ==
  [sheets |->
     [k \in DOMAIN wb.sheets |->
        [wb.sheets[k] EXCEPT !.data =
           [p \in DOMAIN @ |->
              IF @[p].value \in {NaN, Infinity, NegInfinity}
              THEN [@[p] EXCEPT !.value = Null]
              ELSE @[p]]]]]

HistoryEntry(wb, action) == [workbook |-> JsonClone(wb), action |-> action]

\* prev.slice(0, end)
Slice(prev, end) == SubSeq(prev, 1, IF end < Len(prev) THEN end ELSE Len(prev))

\* the history after setHistory's updater ran on prev
UpdatedHistory(prev, newWorkbook, action) ==
  LET updatedHistory == Slice(prev, currentIndex + 1) \o <<HistoryEntry(newWorkbook, action)>>
  IN IF Len(updatedHistory) > MaxHistoryEntries THEN Tail(updatedHistory)
     ELSE updatedHistory

\* addToHistory that moves currentIndex on by one also when it drops the
\* oldest entry
RecordedUnshifted(prev, newWorkbook, action) ==
  /\ history' = UpdatedHistory(prev, newWorkbook, action)
  /\ currentIndex' = currentIndex + 1
  /\ workbook' = newWorkbook
  /\ sharedWith' = IF sharedWith > currentIndex THEN -1 ELSE sharedWith

\* addToHistory(newWorkbook, action) when the history holds prev
Recorded(prev, newWorkbook, action) ==
  LET overflows == Len(Slice(prev, currentIndex + 1)) + 1 > MaxHistoryEntries
  IN /\ history' = UpdatedHistory(prev, newWorkbook, action)
     /\ currentIndex' = IF overflows
                        THEN (IF currentIndex > 0 THEN currentIndex ELSE 0)
                        ELSE currentIndex + 1
     /\ workbook' = newWorkbook
     /\ sharedWith' = IF sharedWith > currentIndex THEN -1
                      ELSE IF overflows /\ sharedWith >= 0 THEN sharedWith - 1
                      ELSE sharedWith

\* addToHistory(newWorkbook, action), the setWorkbook of the hook's users
addToHistory(newWorkbook, action) == Recorded(history, newWorkbook, action)

\* undo()
Undo ==
  /\ pc = "idle"
  /\ IF currentIndex > 0
     THEN /\ currentIndex' = currentIndex - 1
          /\ workbook' = history[currentIndex' + 1].workbook
          /\ sharedWith' = currentIndex'
          /\ returnValue' = Bool(TRUE)
     ELSE /\ returnValue' = Bool(FALSE)
          /\ UNCHANGED <<currentIndex, workbook, sharedWith>>
  /\ UNCHANGED <<history, formula, sheetId, pc, guardVars>>

\* redo()
Redo ==
  /\ pc = "idle"
  /\ IF currentIndex < Len(history) - 1
     THEN /\ currentIndex' = currentIndex + 1
          /\ workbook' = history[currentIndex' + 1].workbook
          /\ sharedWith' = currentIndex'
          /\ returnValue' = Bool(TRUE)
     ELSE /\ returnValue' = Bool(FALSE)
          /\ UNCHANGED <<currentIndex, workbook, sharedWith>>
  /\ UNCHANGED <<history, formula, sheetId, pc, guardVars>>

\* loadWorkbook(newWorkbook)
loadWorkbook(newWorkbook) ==
  /\ pc = "idle"
  /\ addToHistory(newWorkbook, "Loaded new workbook")
  /\ sheetId' = newWorkbook.sheets[1].id
  /\ returnValue' = Undefined
  /\ UNCHANGED <<formula, pc, guardVars>>

(***************************************************************************)
(* Sheet management.  The tools of createSpreadsheetTools change the       *)
(* workbook they were created with in place (pc = "tools"); the grid's     *)
(* operations of useWorkbook build a new workbook and record it in the     *)
(* history (pc = "idle", sheetId is the active sheet).                     *)
(***************************************************************************)
\* the rows and columns of the data of a new sheet
SheetRows == 50

SheetColumns == 52

\* the ids `sh-${Date.now()}-${random}` can produce
SheetIdPool == {"s1", "s2", "s3"}

\* the most entries the history is given by the grid's operations
MaxRecorded == 3

\* Array(50).fill(null).map(() => Array(52).fill(null).map(() => ({ value: null })))
EmptyData ==
  [p \in (0..(SheetRows - 1)) \X (0..(SheetColumns - 1)) |-> Cell(Null)]

NewSheet(id, name) == [id |-> id, name |-> name, data |-> EmptyData]

SheetIds(wb) == {wb.sheets[k].id : k \in DOMAIN wb.sheets}

\* the ids the workbook or an entry of the history uses
UsedSheetIds ==
  SheetIds(workbook) \cup UNION {SheetIds(history[k].workbook) : k \in DOMAIN history}

\* a tool's result: {success: true, ...} or {success: false, error}
ToolOk == [success |-> TRUE, error |-> ""]

ToolError(error) == [success |-> FALSE, error |-> error]

\* workbook.sheets without the sheet of the given id
WithoutSheet(sheets, id) == SelectSeq(sheets, LAMBDA s : s.id # id)

\* the sheets with the name of the sheet of the given id replaced
Renamed(sheets, id, newName) ==
  [k \in DOMAIN sheets |->
     IF sheets[k].id = id THEN [sheets[k] EXCEPT !.name = newName] ELSE sheets[k]]

\* the tool createSheet({name})
createSheetTool(name, newSheetId) ==
  /\ pc = "tools"
  /\ newSheetId \notin UsedSheetIds
  /\ workbook' = [workbook EXCEPT !.sheets = Append(@, NewSheet(newSheetId, name))]
  /\ returnValue' = ToolOk
  /\ UNCHANGED <<formula, sheetId, pc, historyVars, guardVars>>

\* deleteSheet without the test for the last remaining sheet
deleteSheetToolUnguarded(id) ==
  /\ pc = "tools"
  /\ IF FindById(workbook.sheets, id, 1) = 0
     THEN /\ returnValue' = ToolError("Sheet not found")
          /\ UNCHANGED workbook
     ELSE /\ workbook' = [workbook EXCEPT !.sheets = WithoutSheet(@, id)]
          /\ returnValue' = ToolOk
  /\ UNCHANGED <<formula, sheetId, pc, historyVars, guardVars>>

\* the tool deleteSheet({sheetId})
deleteSheetTool(id) ==
  /\ pc = "tools"
  /\ IF Len(workbook.sheets) <= 1
     THEN /\ returnValue' = ToolError("Cannot delete the last remaining sheet in the workbook")
          /\ UNCHANGED workbook
     ELSE IF FindById(workbook.sheets, id, 1) = 0
     THEN /\ returnValue' = ToolError("Sheet not found")
          /\ UNCHANGED workbook
     ELSE /\ workbook' = [workbook EXCEPT !.sheets = WithoutSheet(@, id)]
          /\ returnValue' = ToolOk
  /\ UNCHANGED <<formula, sheetId, pc, historyVars, guardVars>>

\* the tool renameSheet({sheetId, newName})
renameSheetTool(id, newName) ==
  /\ pc = "tools"
  /\ IF FindById(workbook.sheets, id, 1) = 0
     THEN /\ returnValue' = ToolError("Sheet not found")
          /\ UNCHANGED workbook
     ELSE /\ workbook' = [workbook EXCEPT !.sheets = Renamed(@, id, newName)]
          /\ returnValue' = ToolOk
  /\ UNCHANGED <<formula, sheetId, pc, historyVars, guardVars>>

\* the tool copySheet({sheetId, newName})
copySheetTool(id, newName, newSheetId) ==
  /\ pc = "tools"
  /\ newSheetId \notin UsedSheetIds
  /\ IF FindById(workbook.sheets, id, 1) = 0
     THEN /\ returnValue' = ToolError("Source sheet not found")
          /\ UNCHANGED workbook
     ELSE /\ workbook' =
               [workbook EXCEPT !.sheets =
                  Append(@, [id |-> newSheetId, name |-> newName,
                             data |-> SheetOf(workbook, id).data])]
          /\ returnValue' = ToolOk
  /\ UNCHANGED <<formula, sheetId, pc, historyVars, guardVars>>

\* createSheet(name) of the grid
createSheet(name, newSheetId) ==
  /\ pc = "idle"
  /\ Len(history) < MaxRecorded
  /\ newSheetId \notin UsedSheetIds
  /\ addToHistory([workbook EXCEPT !.sheets = Append(@, NewSheet(newSheetId, name))],
                  "Created sheet")
  /\ sheetId' = newSheetId
  /\ returnValue' = Undefined
  /\ UNCHANGED <<formula, pc, guardVars>>

\* deleteSheet(sheetId) of the grid
deleteSheet(id) ==
  /\ pc = "idle"
  /\ Len(history) < MaxRecorded
  /\ IF Len(workbook.sheets) <= 1 \/ FindById(workbook.sheets, id, 1) = 0
     THEN UNCHANGED <<workbook, sheetId, historyVars>>
     ELSE /\ addToHistory([workbook EXCEPT !.sheets = WithoutSheet(@, id)], "Deleted sheet")
          /\ sheetId' = IF id = sheetId THEN workbook'.sheets[1].id ELSE sheetId
  /\ returnValue' = Undefined
  /\ UNCHANGED <<formula, pc, guardVars>>

\* renameSheet(sheetId, newName) of the grid
renameSheet(id, newName) ==
  /\ pc = "idle"
  /\ Len(history) < MaxRecorded
  /\ addToHistory([workbook EXCEPT !.sheets = Renamed(@, id, newName)], "Renamed sheet")
  /\ returnValue' = Undefined
  /\ UNCHANGED <<formula, sheetId, pc, guardVars>>

(***************************************************************************)
(* Column names and the tool applyFormulaToRange.  A tool call holds its   *)
(* parameters in formula (pc = "call") until execute returns.              *)
(***************************************************************************)
\* String.fromCharCode(65 + k)
LetterOf(k) == CHOOSE c \in Upper : UpperCode(c) = k + 1

\* the loop of getColumnHeader from the state (num, result)
RECURSIVE ColumnHeaderFrom(_, _)
ColumnHeaderFrom(num, result) ==
  IF num < 0 THEN result
  ELSE ColumnHeaderFrom((num \div 26) - 1, <<LetterOf(num % 26)>> \o result)

\* getColumnHeader(index) of the grid
getColumnHeader(index) == ColumnHeaderFrom(index, <<>>)

\* the column letters the tool builds in its loop over tempCol
ColumnLetters(col) == ColumnHeaderFrom(col, <<>>)

\* s.replace(/lit/g, rep) for a literal pattern
RECURSIVE ReplaceAll(_, _, _)
ReplaceAll(s, lit, rep) ==
  LET i == IndexOfFrom(s, lit, 0)
  IN IF i < 0 THEN s
     ELSE Substring(s, 0, i) \o rep \o ReplaceAll(SubstringFrom(s, i + Len(lit)), lit, rep)

\* cellToIndices of tools.ts: /^([A-Z]+)(\d+)$/ on the text as given
cellToIndicesStrict(cell) ==
  IF "$" \in Chars(cell) THEN [ok |-> FALSE, row |-> 0, col |-> 0]
  ELSE cellToIndices(cell)

\* /(?<!\$)[A-Z]+(?<!\$)\d+/ at 0-based position i: the end of the match, or -1
MatchRelativeRefAt(s, i) ==
  LET Row(e, f) == IF e > i /\ f > e THEN f ELSE -1
      Column(e) == Row(e, RunEnd(s, e, Digit))
  IN IF i > 0 /\ s[i] = "$" THEN -1 ELSE Column(RunEnd(s, i, Upper))

\* the reference cellRef moved by the offsets
ShiftedRef(cellRef, rowOffset, colOffset) ==
  LET idx == cellToIndicesStrict(cellRef)
  IN ColumnLetters(idx.col + colOffset) \o String(Num(idx.row + rowOffset + 1))

\* formula.replace(/(?<!\$)[A-Z]+(?<!\$)\d+/g, ...) from position i
RECURSIVE AdjustRefsFrom(_, _, _, _)
AdjustRefsFrom(s, i, rowOffset, colOffset) ==
  LET Matched(e) ==
        IF e >= 0
        THEN ShiftedRef(Substring(s, i, e), rowOffset, colOffset)
               \o AdjustRefsFrom(s, e, rowOffset, colOffset)
        ELSE <<s[i + 1]>> \o AdjustRefsFrom(s, i + 1, rowOffset, colOffset)
  IN IF i >= Len(s) THEN <<>> ELSE Matched(MatchRelativeRefAt(s, i))

\* the formula the tool stores in the cell (row, col) of a range that
\* starts at startIndices
RangeFormula(formulaPattern, row, col, startIndices) ==
  AdjustRefsFrom(
    ReplaceAll(ReplaceAll(formulaPattern, <<"{","R","O","W","}">>, String(Num(row + 1))),
               <<"{","C","O","L","}">>, ColumnLetters(col)),
    0, row - startIndices.row, col - startIndices.col)

\* the data of a sheet after the loops of applyFormulaToRange
RangeApplied(data, formulaPattern, startIndices, endIndices) ==
  LET range == (startIndices.row..endIndices.row) \X (startIndices.col..endIndices.col)
      ensured == IF range = {} THEN {}
                 ELSE (startIndices.row..endIndices.row) \X (0..endIndices.col)
  IN [p \in DOMAIN data \cup ensured |->
        IF p \in range
        THEN FormulaCell(RangeFormula(formulaPattern, p[1], p[2], startIndices), Null)
        ELSE IF p \in DOMAIN data THEN data[p]
        ELSE Cell(Null)]

\* the sheets with the data of the sheet of the given id replaced
WithData(sheets, id, data) ==
  [k \in DOMAIN sheets |->
     IF sheets[k].id = id THEN [sheets[k] EXCEPT !.data = data] ELSE sheets[k]]

\* what a tool leaves: the workbook and the value execute returns
Executed(wb, result) == [workbook |-> wb, result |-> result]

\* the workbook with the data of the sheet of the given id replaced
Stored(wb, id, data) == [wb EXCEPT !.sheets = WithData(@, id, data)]

\* applyFormulaToRange.execute(params) on the workbook wb
applyFormulaToRangeOn(wb, params) ==
  LET startIndices == cellToIndicesStrict(params.startCell)
      endIndices == cellToIndicesStrict(params.endCell)
  IN IF ~HasSheet(wb, params.sheetId) THEN Executed(wb, ToolError("Sheet not found"))
     ELSE IF ~startIndices.ok \/ ~endIndices.ok
     THEN Executed(wb, ToolError("Failed to apply formula to range"))
     ELSE Executed(Stored(wb, params.sheetId,
                          RangeApplied(SheetOf(wb, params.sheetId).data,
                                       params.formulaPattern, startIndices, endIndices)),
                   ToolOk)

\* a call of applyFormulaToRange, its parameters held in formula, returns
applyFormulaToRange ==
  /\ pc = "call"
  /\ workbook' = applyFormulaToRangeOn(workbook, formula).workbook
  /\ returnValue' = applyFormulaToRangeOn(workbook, formula).result
  /\ pc' = "returned"
  /\ UNCHANGED <<formula, sheetId, historyVars, guardVars>>

RangeNext == applyFormulaToRange

(***************************************************************************)
(* The tools and the grid operation that write cells.  The data of a sheet *)
(* is held as a map from <<row, col>> to a cell; a row the tools push as   *)
(* an empty array holds no cell.  A data parameter given as a JSON text is *)
(* outside the model: data is a sequence of rows of values.                *)
(***************************************************************************)
\* the data with the cells of the set added as { value: null } where missing
Ensured(data, cells) ==
  [p \in DOMAIN data \cup cells |-> IF p \in DOMAIN data THEN data[p] ELSE Cell(Null)]

\* the data with the cells of the map writes assigned
Written(data, writes) ==
  [p \in DOMAIN data \cup DOMAIN writes |-> IF p \in DOMAIN writes THEN writes[p] ELSE data[p]]

\* { value: cellValue === "" ? null : cellValue }
ValueCell(cellValue) == Cell(IF cellValue = Str(<<>>) THEN Null ELSE cellValue)

\* parseRange of tools.ts
parseRangeStrict(range) ==
  LET Corners(startIndices, endIndices) ==
        [ok |-> startIndices.ok /\ endIndices.ok,
         startRow |-> startIndices.row, startCol |-> startIndices.col,
         endRow |-> endIndices.row, endCol |-> endIndices.col]
      Parts(parts) == Corners(cellToIndicesStrict(parts[1]), cellToIndicesStrict(parts[2]))
      Single(indices) == Corners(indices, indices)
  IN IF Includes(range, <<":">>) THEN Parts(Split(range, <<":">>))
     ELSE Single(cellToIndicesStrict(range))

\* setData.execute(params)
setDataOn(wb, params) ==
  LET r == parseRangeStrict(params.range)
      data == params.data
      rows == {i \in 1..Len(data) : r.startRow + i - 1 <= r.endRow}
      ensured == {r.startRow + i - 1 : i \in rows} \X (0..r.endCol)
      targets ==
        UNION {{<<r.startRow + i - 1, r.startCol + j - 1>> :
                  j \in {k \in 1..Len(data[i]) : r.startCol + k - 1 <= r.endCol}} : i \in rows}
      writes ==
        [p \in targets |-> ValueCell(data[p[1] - r.startRow + 1][p[2] - r.startCol + 1])]
  IN IF ~HasSheet(wb, params.sheetId) THEN Executed(wb, ToolError("Sheet not found"))
     ELSE IF ~r.ok THEN Executed(wb, ToolError("Failed to set data"))
     ELSE Executed(Stored(wb, params.sheetId,
                          Written(Ensured(SheetOf(wb, params.sheetId).data, ensured), writes)),
                   ToolOk)

\* applyFormula.execute(params)
applyFormulaOn(wb, params) ==
  LET idx == cellToIndicesStrict(params.cell)
  IN IF ~HasSheet(wb, params.sheetId) THEN Executed(wb, ToolError("Sheet not found"))
     ELSE IF ~idx.ok THEN Executed(wb, ToolError("Failed to apply formula"))
     ELSE Executed(Stored(wb, params.sheetId,
                          Written(Ensured(SheetOf(wb, params.sheetId).data,
                                          {idx.row} \X (0..idx.col)),
                                  <<idx.row, idx.col>> :> FormulaCell(params.formula, Null))),
                   ToolOk)

\* setDataGrid.execute(params)
setDataGridOn(wb, params) ==
  LET s == cellToIndicesStrict(params.startCell)
      data == params.data
      targets ==
        UNION {{<<s.row + i - 1, s.col + j - 1>> : j \in 1..Len(data[i])} : i \in 1..Len(data)}
      ensured == UNION {{p[1]} \X (0..p[2]) : p \in targets}
      writes == [p \in targets |-> ValueCell(data[p[1] - s.row + 1][p[2] - s.col + 1])]
  IN IF ~HasSheet(wb, params.sheetId) THEN Executed(wb, ToolError("Sheet not found"))
     ELSE IF ~s.ok THEN Executed(wb, ToolError("Failed to set data grid"))
     ELSE Executed(Stored(wb, params.sheetId,
                          Written(Ensured(SheetOf(wb, params.sheetId).data, ensured), writes)),
                   ToolOk)

\* execute leaves the workbook the tools were created with and its result
Leaves(executed) ==
  /\ workbook' = executed.workbook
  /\ returnValue' = executed.result
  /\ UNCHANGED <<formula, sheetId, pc, historyVars, guardVars>>

setData(params) ==
  /\ pc = "tools"
  /\ Leaves(setDataOn(workbook, params))

applyFormula(params) ==
  /\ pc = "tools"
  /\ Leaves(applyFormulaOn(workbook, params))

setDataGrid(params) ==
  /\ pc = "tools"
  /\ Leaves(setDataGridOn(workbook, params))

applyFormulaToRangeTool(params) ==
  /\ pc = "tools"
  /\ Leaves(applyFormulaToRangeOn(workbook, params))


(***************************************************************************)
(* getCellValue step by step.  evaluatingSet is the Set the outermost call *)
(* created (its default parameter) and hands down; callStack holds one     *)
(* frame for each call that has added its key and is waiting for           *)
(* evaluateFormula: the key, the references of the cell's formula still to *)
(* be read (result.match(...) of evaluateExpression, for a formula without *)
(* function calls, '&' and cross-sheet references), the content of the set *)
(* when the call began, and the first error value a reference returned.    *)
(***************************************************************************)
\* no reference of the frame has returned an error value
NotFailed == [t |-> "none", v |-> 0]

\* a call that leaves its key in the set
NotDeleted(cells, cellKey) == cells

\* evaluatingCells.delete(cellKey)
Deleted(cells, cellKey) == cells \ {cellKey}

\* the references evaluateExpression reads for a cell's formula
FormulaRefs(f) ==
  IF f # <<>> /\ Head(f) = "=" THEN MatchAllCellRefs(Trim(Tail(f)), 0) ELSE <<>>

\* the reference the next getCellValue call is made with
PendingRef == IF callStack = <<>> THEN formula ELSE Head(callStack[Len(callStack)].refs)

\* the stack after the call on top of it passed cellValue to its caller
Delivered(stack, cellValue) ==
  IF stack = <<>> THEN stack
  ELSE [stack EXCEPT ![Len(stack)].failed =
          IF @ = NotFailed /\ IsErrorValue(cellValue) THEN cellValue ELSE @]

\* the stack with the pending reference of its top frame taken
Advanced(stack) ==
  IF stack = <<>> THEN stack
  ELSE [stack EXCEPT ![Len(stack)].refs = Tail(@)]

\* getCellValue is called (lines 110-127): it returns at once, or adds its
\* key and calls evaluateFormula
GetCellValueBegins ==
  LET cellRef == PendingRef
      cellKey == <<sheetId, cellRef>>
      idx == cellToIndices(cellRef)
      found == idx.ok /\ HasSheet(workbook, sheetId)
                 /\ HasCell(SheetOf(workbook, sheetId), idx.row, idx.col)
      cell == SheetOf(workbook, sheetId).data[<<idx.row, idx.col>>]
      Immediate(cellValue) ==
        /\ returnValue' = cellValue
        /\ callStack' = Delivered(Advanced(callStack), cellValue)
        /\ pc' = IF callStack = <<>> THEN "returned" ELSE "running"
        /\ UNCHANGED evaluatingSet
  IN /\ \/ pc = "call"
        \/ /\ pc = "running"
           /\ callStack[Len(callStack)].refs # <<>>
           /\ callStack[Len(callStack)].failed = NotFailed
     /\ IF ~found THEN Immediate(Num(0))
        ELSE IF cellKey \in evaluatingSet THEN Immediate(ErrCircular)
        ELSE IF cell.formula # <<>>
        THEN /\ evaluatingSet' = evaluatingSet \cup {cellKey}
             /\ callStack' = Append(Advanced(callStack),
                                    [key |-> cellKey, formula |-> cell.formula,
                                     refs |-> FormulaRefs(cell.formula),
                                     before |-> evaluatingSet, failed |-> NotFailed])
             /\ pc' = "running"
             /\ UNCHANGED returnValue
        ELSE Immediate(IF Truthy(cell.value) THEN cell.value ELSE Num(0))
     /\ UNCHANGED <<workbook, formula, sheetId, historyVars>>

\* a return of evaluateFormula after which the key stays in the set
GetCellValueReturnsKeeping ==
  LET top == callStack[Len(callStack)]
      result == IF top.failed # NotFailed THEN top.failed
                ELSE evaluateFormula(top.formula, workbook, sheetId, evaluatingSet, MaxDepth)
  IN /\ pc = "running"
     /\ top.refs = <<>> \/ top.failed # NotFailed
     /\ evaluatingSet' = evaluatingSet
     /\ returnValue' = result
     /\ callStack' = Delivered(SubSeq(callStack, 1, Len(callStack) - 1), result)
     /\ pc' = IF Len(callStack) = 1 THEN "returned" ELSE "running"
     /\ UNCHANGED <<workbook, formula, sheetId, historyVars>>

\* evaluateFormula returned to the call on top of the stack (lines 129-131)
GetCellValueReturns ==
  LET top == callStack[Len(callStack)]
      result == IF top.failed # NotFailed THEN top.failed
                ELSE evaluateFormula(top.formula, workbook, sheetId, evaluatingSet, MaxDepth)
  IN /\ pc = "running"
     /\ top.refs = <<>> \/ top.failed # NotFailed
     /\ evaluatingSet' = Deleted(evaluatingSet, top.key)
     /\ returnValue' = result
     /\ callStack' = Delivered(SubSeq(callStack, 1, Len(callStack) - 1), result)
     /\ pc' = IF Len(callStack) = 1 THEN "returned" ELSE "running"
     /\ UNCHANGED <<workbook, formula, sheetId, historyVars>>

\* evaluateFormula threw to the call on top of the stack (lines 132-135)
GetCellValueCatches ==
  LET top == callStack[Len(callStack)]
  IN /\ pc = "running"
     /\ evaluatingSet' = Deleted(evaluatingSet, top.key)
     /\ returnValue' = ErrError
     /\ callStack' = Delivered(SubSeq(callStack, 1, Len(callStack) - 1), ErrError)
     /\ pc' = IF Len(callStack) = 1 THEN "returned" ELSE "running"
     /\ UNCHANGED <<workbook, formula, sheetId, historyVars>>

GuardNext == GetCellValueBegins \/ GetCellValueReturns \/ GetCellValueCatches

(***************************************************************************)
(* updateCell of the grid, with the evaluateFormula of use-workbook (a     *)
(* formula that begins with SUM( and one that holds a '$' or a '.' are     *)
(* outside the model).                                                     *)
(***************************************************************************)
\* s.replace(lit, rep): the first occurrence only
ReplaceFirst(s, lit, rep) ==
  LET i == IndexOfFrom(s, lit, 0)
  IN IF i < 0 THEN s ELSE Substring(s, 0, i) \o rep \o SubstringFrom(s, i + Len(lit))

\* the loop over cellRefs: each reference replaced by String(cell?.value || 0)
RECURSIVE ReplaceRefsInGrid(_, _, _, _)
ReplaceRefsInGrid(cellRefs, k, result, sheet) ==
  LET idx == cellToIndicesStrict(cellRefs[k])
      value == IF HasCell(sheet, idx.row, idx.col)
                    /\ Truthy(sheet.data[<<idx.row, idx.col>>].value)
               THEN sheet.data[<<idx.row, idx.col>>].value ELSE Num(0)
  IN IF k > Len(cellRefs) THEN result
     ELSE ReplaceRefsInGrid(cellRefs, k + 1, ReplaceFirst(result, cellRefs[k], String(value)), sheet)

\* /^[\d+\-*\/().\s]+$/.test(result) and eval(result)
EvalInGrid(result) ==
  LET Caught(val) == IF IsThrow(val) THEN ErrError ELSE val
  IN IF result = <<>> \/ ~(Chars(result) \subseteq Digit \cup SpaceChar \cup {"+","-","*","/","(",")","."})
     THEN ErrError
     ELSE IF Trim(result) = <<>> THEN Undefined
     ELSE Caught(JsEvaluate(result))

\* evaluateFormula(formula, workbook, sheetId, row, col) of use-workbook
evaluateFormulaInGrid(f, wb, sid) ==
  LET expr == Tail(f)
  IN IF ~HasSheet(wb, sid) THEN ErrError
     ELSE IF StartsWithAt(expr, <<"S","U","M","(">>, 0) \/ "$" \in Chars(expr) THEN Unmodelled
     ELSE EvalInGrid(ReplaceRefsInGrid(MatchAllCellRefs(expr, 0), 1, expr, SheetOf(wb, sid)))

\* the number of rows of the data of a sheet of the grid
RowCount(data) ==
  IF DOMAIN data = {} THEN 0
  ELSE 1 + CHOOSE r \in {p[1] : p \in DOMAIN data} : \A p \in DOMAIN data : p[1] <= r

\* newData after the two while loops of updateCell and the assignment
CellUpdated(data, row, col, cell) ==
  Written(Ensured(Ensured(data, (RowCount(data)..row) \X (0..(SheetColumns - 1))),
                  {row} \X (0..col)),
          <<row, col>> :> cell)

\* the cell updateCell stores for the text value
EditedCell(value, wb, sid) ==
  IF value # <<>> /\ Head(value) = "="
  THEN FormulaCell(value, evaluateFormulaInGrid(value, wb, sid))
  ELSE Cell(IF value = <<>> THEN Null ELSE Str(value))

\* the workbook entry holds after updateCell wrote into the row arrays it
\* shares with the grid's workbook
SharedWrite(entry, sid, row, col, cell) ==
  IF HasSheet(entry.workbook, sid)
       /\ \E p \in DOMAIN SheetOf(entry.workbook, sid).data : p[1] = row
  THEN [entry EXCEPT !.workbook =
          Stored(@, sid, Written(Ensured(SheetOf(@, sid).data, {row} \X (0..col)),
                                 <<row, col>> :> cell))]
  ELSE entry

\* the history after the write
HistoryWritten(sid, row, col, cell) ==
  [k \in DOMAIN history |->
     IF k = sharedWith + 1 THEN SharedWrite(history[k], sid, row, col, cell) ELSE history[k]]

\* updateCell(sheetId, row, col, value)
updateCell(sid, row, col, value) ==
  LET cell == EditedCell(value, workbook, sid)
      updatedWorkbook ==
        IF HasSheet(workbook, sid)
        THEN Stored(workbook, sid, CellUpdated(SheetOf(workbook, sid).data, row, col, cell))
        ELSE workbook
      written == IF HasSheet(workbook, sid) THEN HistoryWritten(sid, row, col, cell) ELSE history
  IN /\ pc = "idle"
     /\ Len(history) < MaxRecorded
     /\ Recorded(written, updatedWorkbook, "Edit cell")
     /\ returnValue' = Undefined
     /\ UNCHANGED <<formula, sheetId, pc, guardVars>>

\* a call of getColumnHeader on a column index
CallHeader(index) ==
  Call([kind |-> "index", index |-> index, letters |-> <<>>], [sheets |-> <<>>], "")

\* a call of cellToIndices on the letters followed by row 1
CallIndices(letters) ==
  Call([kind |-> "letters", index |-> 0, letters |-> letters], [sheets |-> <<>>], "")

GetColumnHeader ==
  /\ pc = "call"
  /\ formula.kind = "index"
  /\ returnValue' = Str(getColumnHeader(formula.index))
  /\ pc' = "returned"
  /\ UNCHANGED <<workbook, formula, sheetId, historyVars, guardVars>>

CellToIndices ==
  /\ pc = "call"
  /\ formula.kind = "letters"
  /\ LET indices == cellToIndices(formula.letters \o <<"1">>)
     IN returnValue' = IF indices.ok THEN Num(indices.col) ELSE Thrown("Error")
  /\ pc' = "returned"
  /\ UNCHANGED <<workbook, formula, sheetId, historyVars, guardVars>>

ColumnNext == GetColumnHeader \/ CellToIndices

(***************************************************************************)
(* Workbooks and formulas the evaluation is checked on                     *)
(***************************************************************************)
\* the grid of a sheet: rows 1..2, columns A..C
GridCells == (0..1) \X (0..2)

A1 == <<0, 0>>
B1 == <<0, 1>>
C1 == <<0, 2>>
A2 == <<1, 0>>
B2 == <<1, 1>>
C2 == <<1, 2>>

EmptyCell == Cell(Null)

\* a grid that holds the given cells and empty cells elsewhere
Grid(cells) == [p \in GridCells |-> IF p \in DOMAIN cells THEN cells[p] ELSE EmptyCell]

\* Sheet1
SheetOneName == <<"S","h","e","e","t","1">>

\* Data
DataName == <<"D","a","t","a">>

\* My Data
MyDataName == <<"M","y"," ","D","a","t","a">>

Sheet(id, name, cells) == [id |-> id, name |-> name, data |-> Grid(cells)]

\* a workbook of two sheets, "s1" named Sheet1 and "s2" named as given
Workbook(cells1, name2, cells2) ==
  [sheets |-> <<Sheet("s1", SheetOneName, cells1), Sheet("s2", name2, cells2)>>]

Input(f, wb, sid) == [f |-> f, wb |-> wb, sid |-> sid]

\* the stale value a formula cell caches
Cached == Num(99)

(***************************************************************************)
(* Cycles of direct cell references                                        *)
(***************************************************************************)
ColumnLetter == <<"A", "B", "C">>

LinkForms ==
  {"ref", "plus", "plusLeft", "times", "absolute", "rowAbsolute", "spaced",
   "otherFirst", "otherLast"}

FewLinkForms == {"ref", "plusLeft", "otherFirst"}

\* the formula that refers to cell <col>1 in the given form
Link(form, col) ==
  CASE form = "ref" -> <<"=", col, "1">>
    [] form = "plus" -> <<"=", col, "1", "+", "1">>
    [] form = "plusLeft" -> <<"=", "1", "+", col, "1">>
    [] form = "times" -> <<"=", col, "1", "*", "2">>
    [] form = "absolute" -> <<"=", "$", col, "$", "1">>
    [] form = "rowAbsolute" -> <<"=", col, "$", "1", "-", "1">>
    [] form = "spaced" -> <<"=", " ", col, "1", " ", "/", " ", "2">>
    [] form = "otherFirst" -> <<"=", "C", "2", "+", col, "1">>
    [] form = "otherLast" -> <<"=", col, "1", "-", "C", "2">>

\* cells 1..n of row 1, cell i referring to cell i+1 and cell n to cell 1
CycleCells(n, forms) ==
  [p \in {<<0, i - 1>> : i \in 1..n} |->
     FormulaCell(Link(forms[p[2] + 1], ColumnLetter[((p[2] + 1) % n) + 1]), Cached)]

CycleWorkbook(n, forms) ==
  Workbook(CycleCells(n, forms) @@ (C2 :> Cell(Num(5))), DataName, (B2 :> Cell(Num(42))))

CycleFormSets(n) == IF n = 3 THEN [1..n -> FewLinkForms] ELSE [1..n -> LinkForms]

\* the formula of every cell of every such cycle, evaluated on its sheet
SameSheetCycleInputs ==
  UNION {{Input(CycleWorkbook(n, forms).sheets[1].data[<<0, i - 1>>].formula,
                CycleWorkbook(n, forms), "s1")
            : i \in 1..n} : <<n, forms>> \in UNION {{<<m, fs>> : fs \in CycleFormSets(m)} : m \in 1..3}}

\* =Data.B2
F_DataB2 == <<"=","D","a","t","a",".","B","2">>

\* =Sheet1.A1
F_SheetOneA1 == <<"=","S","h","e","e","t","1",".","A","1">>

\* ='Data'.B2
F_QuotedDataB2 == <<"=","'","D","a","t","a","'",".","B","2">>

\* ='Sheet1'.A1
F_QuotedSheetOneA1 == <<"=","'","S","h","e","e","t","1","'",".","A","1">>

\* Sheet1!A1 refers to Data!B2 and Data!B2 to Sheet1!A1
CrossSheetCycleWorkbook(toData, toSheetOne) ==
  Workbook((A1 :> FormulaCell(toData, Cached)), DataName,
           (B2 :> FormulaCell(toSheetOne, Cached)))

CrossSheetCycleInputs ==
  UNION {{Input(toData, CrossSheetCycleWorkbook(toData, toSheetOne), "s1"),
          Input(toSheetOne, CrossSheetCycleWorkbook(toData, toSheetOne), "s2")}
           : <<toData, toSheetOne>> \in {F_DataB2, F_QuotedDataB2} \X {F_SheetOneA1, F_QuotedSheetOneA1}}

CycleInputs == SameSheetCycleInputs \cup CrossSheetCycleInputs

(***************************************************************************)
(* Formulas and workbooks for the function library, cross-sheet            *)
(* references, concatenation, literals and failing evaluations             *)
(***************************************************************************)
\* =SUM(A1:A2)
F_SumA1A2 == <<"=","S","U","M","(","A","1",":","A","2",")">>

\* =SUM(A1)
F_SumA1 == <<"=","S","U","M","(","A","1",")">>

\* =SUM(A2,A1)
F_SumA2A1 == <<"=","S","U","M","(","A","2",",","A","1",")">>

\* =ROUND(A1,0)
F_RoundA1 == <<"=","R","O","U","N","D","(","A","1",",","0",")">>

\* =INDEX(A1:A1,1)
F_IndexA1 == <<"=","I","N","D","E","X","(","A","1",":","A","1",",","1",")">>

\* =Data.$B$2
F_DataAbsB2 == <<"=","D","a","t","a",".","$","B","$","2">>

\* ='My Data'.B2
F_QuotedMyDataB2 == <<"=","'","M","y"," ","D","a","t","a","'",".","B","2">>

\* =Missing.B2
F_MissingB2 == <<"=","M","i","s","s","i","n","g",".","B","2">>

\* ='Missing'.B2
F_QuotedMissingB2 == <<"=","'","M","i","s","s","i","n","g","'",".","B","2">>

\* =Missing.B2+1
F_MissingB2Plus1 == <<"=","M","i","s","s","i","n","g",".","B","2","+","1">>

\* =1+Missing.B2
F_1PlusMissingB2 == <<"=","1","+","M","i","s","s","i","n","g",".","B","2">>

\* ='Missing'.B2+1
F_QuotedMissingB2Plus1 == <<"=","'","M","i","s","s","i","n","g","'",".","B","2","+","1">>

\* =1/0
F_1Div0 == <<"=","1","/","0">>

\* =A1
F_A1 == <<"=","A","1">>

\* =IF(A1>0,1,2)
F_IfA1Gt0 == <<"=","I","F","(","A","1",">","0",",","1",",","2",")">>

\* =IF(0<A1,1,2)
F_If0LtA1 == <<"=","I","F","(","0","<","A","1",",","1",",","2",")">>

\* =IF(A1,1,2)
F_IfA1 == <<"=","I","F","(","A","1",",","1",",","2",")">>

\* =VLOOKUP(9,A1:B2,2,TRUE)+1
F_VlookupPlus1 == <<"=","V","L","O","O","K","U","P","(","9",",","A","1",":","B","2",",","2",",","T","R","U","E",")","+","1">>

\* =1+VLOOKUP(9,A1:B2,2,TRUE)
F_1PlusVlookup == <<"=","1","+","V","L","O","O","K","U","P","(","9",",","A","1",":","B","2",",","2",",","T","R","U","E",")">>

\* =VLOOKUP(9,A1:B2,2,TRUE)*2
F_VlookupTimes2 == <<"=","V","L","O","O","K","U","P","(","9",",","A","1",":","B","2",",","2",",","T","R","U","E",")","*","2">>

\* =INDEX(A1:B2,0)+1
F_IndexPlus1 == <<"=","I","N","D","E","X","(","A","1",":","B","2",",","0",")","+","1">>

\* =FOO(1)
F_Foo == <<"=","F","O","O","(","1",")">>

\* =FOO(1)+1
F_FooPlus1 == <<"=","F","O","O","(","1",")","+","1">>

\* =IF(1)
F_IfOneArg == <<"=","I","F","(","1",")">>

\* =SUM(A1:)
F_SumOpenRange == <<"=","S","U","M","(","A","1",":",")">>

\* ="a&b"
F_QuotedAmpersand == <<"=","\"","a","&","b","\"">>

\* =VLOOKUP(1)
F_VlookupOneArg == <<"=","V","L","O","O","K","U","P","(","1",")">>

\* =INDEX(1)
F_IndexOneArg == <<"=","I","N","D","E","X","(","1",")">>

\* =ROUND()
F_RoundNoArg == <<"=","R","O","U","N","D","(",")">>

\* =INDEX(A1:,1)
F_IndexOpenRange == <<"=","I","N","D","E","X","(","A","1",":",",","1",")">>

\* #N/A
NotAvailableText == <<"#","N","/","A">>

\* Sheet1 with the given cell A1 and A2 = 3, B1 = 0, B2 = 7; the second sheet
\* has the given name and B2 = 42
FunctionWorkbook(a1, name2) ==
  Workbook((A1 :> a1) @@ (A2 :> Cell(Num(3))) @@ (B1 :> Cell(Num(0))) @@ (B2 :> Cell(Num(7))),
           name2, (B2 :> Cell(Num(42))))

PlainWorkbook == FunctionWorkbook(Cell(Num(10)), DataName)

\* a cell A1 whose formula is the formula evaluated
FunctionCycleFormulas == {F_SumA1A2, F_SumA1, F_SumA2A1, F_RoundA1, F_IndexA1}

FunctionCycleInputs ==
  {Input(f, FunctionWorkbook(FormulaCell(f, Cached), DataName), "s1") : f \in FunctionCycleFormulas}

\* a reference to cell B2 of the second sheet, evaluated on Sheet1
CrossSheetInputs ==
  {Input(f, PlainWorkbook, "s1") : f \in {F_DataB2, F_QuotedDataB2, F_DataAbsB2}}
    \cup {Input(F_QuotedMyDataB2, FunctionWorkbook(Cell(Num(10)), MyDataName), "s1")}

\* a reference to a sheet the workbook does not have
MissingSheetFormulas ==
  {F_MissingB2, F_QuotedMissingB2, F_MissingB2Plus1, F_1PlusMissingB2, F_QuotedMissingB2Plus1}

MissingSheetInputs == {Input(f, PlainWorkbook, "s1") : f \in MissingSheetFormulas}

\* cells that evaluate to an error sentinel: "#REF!", "#DIV/0!", "#CIRCULAR!"
\* by formula, "#N/A" by value
ErrorCells ==
  {FormulaCell(F_MissingB2, Cached), FormulaCell(F_1Div0, Cached),
   FormulaCell(F_A1, Cached), Cell(Str(NotAvailableText))}

SumErrorInputs ==
  {Input(f, FunctionWorkbook(a1, DataName), "s1")
     : f \in {F_SumA1A2, F_SumA1, F_SumA2A1}, a1 \in ErrorCells}

IfErrorInputs ==
  {Input(f, FunctionWorkbook(a1, DataName), "s1")
     : f \in {F_IfA1Gt0, F_If0LtA1, F_IfA1}, a1 \in ErrorCells}

\* a lookup that misses (VLOOKUP) or an offset out of range (INDEX) inside arithmetic
NestedErrorFormulas == {F_VlookupPlus1, F_1PlusVlookup, F_VlookupTimes2, F_IndexPlus1}

NestedErrorInputs == {Input(f, PlainWorkbook, "s1") : f \in NestedErrorFormulas}

\* the parts of a concatenation: a quoted text, cells, a number, a division by 0
ConcatParts ==
  {<<"\"","T","o","t","a","l",":"," ","\"">>, <<"A","1">>, <<"B","1">>, <<"A","2">>,
   <<"1","/","0">>, <<" ","A","1"," ">>}

\* part & part and part & part & part
ConcatFormulas ==
  {<<"=">> \o p \o <<"&">> \o q : p \in ConcatParts, q \in ConcatParts}
    \cup {<<"=">> \o p \o <<"&">> \o q \o <<"&">> \o r
            : p \in {<<"A","1">>, <<"A","2">>}, q \in ConcatParts, r \in {<<"A","1">>, <<"B","1">>}}

\* Sheet1 with the given cells A1 and B1 and A2 = 3
ConcatWorkbook(a1, b1) ==
  Workbook((A1 :> a1) @@ (B1 :> b1) @@ (A2 :> Cell(Num(3))), DataName, (B2 :> Cell(Num(42))))

ConcatInputs ==
  {Input(f, ConcatWorkbook(a1, b1), "s1")
     : f \in ConcatFormulas,
       a1 \in {Cell(Num(10)), FormulaCell(F_MissingB2, Cached), Cell(Str(NotAvailableText))},
       b1 \in {Cell(Str(<<"x">>)), FormulaCell(F_1Div0, Cached)}}

\* texts that do not begin with "=": numbers, words, the empty text, text
\* that would be a formula after "="
LiteralTexts ==
  {<<"5">>, <<"4","2">>, <<"-","3",".","5">>, <<"0">>, <<>>, <<"h","e","l","l","o">>,
   <<" ","=","A","1">>, <<"A","1">>, <<"S","U","M","(","A","1",":","A","2",")">>,
   <<"#","R","E","F","!">>, <<" ","7"," ">>, <<"1","+","1">>}

\* the id of no sheet
NoSuchSheetId == "s9"

LiteralInputs ==
  {Input(f, PlainWorkbook, sid) : f \in LiteralTexts, sid \in {"s1", "s2", NoSuchSheetId}}

\* formulas whose evaluation throws: an unknown function, too few arguments,
\* a range without an end, a recursion without an end
ThrowingFormulas ==
  {F_Foo, F_FooPlus1, F_IfOneArg, F_SumOpenRange, F_QuotedAmpersand, F_VlookupOneArg,
   F_IndexOneArg, F_RoundNoArg, F_IndexOpenRange}

ThrowingInputs ==
  {Input(f, PlainWorkbook, sid) : f \in ThrowingFormulas \cup {F_A1, F_SumA1A2, F_1Div0},
                                  sid \in {"s1", NoSuchSheetId}}

\* =SUM(A1:A3)
F_SumA1A3 == <<"=","S","U","M","(","A","1",":","A","3",")">>

\* =SUM(A1:A4)
F_SumA1A4 == <<"=","S","U","M","(","A","1",":","A","4",")">>

\* =1+2
F_1Plus2 == <<"=","1","+","2">>

\* contents of a cell of a summed range, each with the number it adds to the
\* sum: numbers, text that is a number, text that is not, the empty text, an
\* empty cell, a formula cell (whose cached value is not its result)
SumContents ==
  {<<Cell(Num(1)), 1>>, <<Cell(Num(3)), 3>>, <<Cell(Num(-2)), -2>>,
   <<Cell(Str(<<"5">>)), 5>>, <<Cell(Str(<<"x">>)), 0>>, <<Cell(Str(<<>>)), 0>>,
   <<Cell(Null), 0>>, <<FormulaCell(F_1Plus2, Cached), 3>>}

\* Sheet1 is the column A1, A2, A3 with the given cells and has no fourth row
ColumnWorkbook(a1, a2, a3) ==
  [Workbook(<<>>, DataName, <<>>) EXCEPT
     !.sheets[1].data = (<<0, 0>> :> a1) @@ (<<1, 0>> :> a2) @@ (<<2, 0>> :> a3)]

SumRangeInputs ==
  {Input(f, ColumnWorkbook(a[1], b[1], c[1]), "s1")
     : f \in {F_SumA1A3, F_SumA1A4}, a \in SumContents, b \in SumContents, c \in SumContents}

\* =A1/B1
F_A1DivB1 == <<"=","A","1","/","B","1">>

\* =A1 / B1
F_A1DivB1Spaced == <<"=","A","1"," ","/"," ","B","1">>

\* =(A1)/(B1)
F_A1DivB1Parens == <<"=","(","A","1",")","/","(","B","1",")">>

DivisionFormulas == {F_A1DivB1, F_A1DivB1Spaced, F_A1DivB1Parens}

Dividends == {Cell(Num(10)), Cell(Num(-5)), Cell(Num(1)), Cell(Num(0)), Cell(Str(<<"6">>))}

\* divisors that are zero or empty, and two that divide every dividend
Divisors == {Cell(Num(0)), Cell(Null), Cell(Str(<<>>)), Cell(Num(1)), Cell(Num(-1))}

\* A1 and B1 given; and the column sheet, where B1 does not exist
DivisionInputs ==
  {Input(f, Workbook((A1 :> a) @@ (B1 :> b), DataName, <<>>), "s1")
     : f \in DivisionFormulas, a \in Dividends, b \in Divisors}
  \cup {Input(f, ColumnWorkbook(a, EmptyCell, EmptyCell), "s1")
          : f \in DivisionFormulas, a \in Dividends}

\* the digit 1 followed by 309 zeros: the decimal of 1e309
HugeLiteral == <<"1">> \o [i \in 1..309 |-> "0"]

\* operands and operators of the arithmetic texts a op b; every quotient of
\* them with a divisor that is not zero is an integer
ArithmeticLeft == {<<"0">>, <<"1","2">>, <<"-","1","2">>, <<"6">>, <<"(","6",")">>}

ArithmeticRight == {<<"0">>, <<"1">>, <<"-","1">>, <<"2">>, <<"3">>, <<"(","0",")">>}

ArithmeticOps == {<<"/">>, <<"*">>, <<"+">>, <<"-">>, <<" ","/"," ">>}

ZeroTexts == {<<"0">>, <<"(","0",")">>}

DivisionOps == {<<"/">>, <<" ","/"," ">>}

\* 1/0+1, 1/0*0, (1/0)-(1/0), -1/0, 0/0+1, 2*(3+4), 1/0), abc, 5, -5, the
\* empty text, and the decimal of 1e309 plain, negative and with blanks
ArithmeticTexts ==
  {<<"1","/","0","+","1">>, <<"1","/","0","*","0">>,
   <<"(","1","/","0",")","-","(","1","/","0",")">>, <<"-","1","/","0">>,
   <<"0","/","0","+","1">>, <<"2","*","(","3","+","4",")">>, <<"1","/","0",")">>,
   <<"a","b","c">>, <<"5">>, <<"-","5">>, <<>>,
   HugeLiteral, <<"-">> \o HugeLiteral, <<"-", " ">> \o HugeLiteral,
   <<" ">> \o HugeLiteral \o <<" ">>}

ArithmeticInputs ==
  {l \o op \o r : l \in ArithmeticLeft, op \in ArithmeticOps, r \in ArithmeticRight}
    \cup ArithmeticTexts

\* =ROUND(SUM(A1:A2)/2,1)
F_RoundHalfSum == <<"=","R","O","U","N","D","(","S","U","M","(","A","1",":","A","2",")","/","2",",","1",")">>

\* =ROUND(SUM(A1:A2)*2,0)
F_RoundTwiceSum == <<"=","R","O","U","N","D","(","S","U","M","(","A","1",":","A","2",")","*","2",",","0",")">>

\* =ROUND(2+SUM(A1:A2),0)
F_RoundSumPlus == <<"=","R","O","U","N","D","(","2","+","S","U","M","(","A","1",":","A","2",")",",","0",")">>

\* =ROUND(2-SUM(A1:A2),0)
F_RoundSumMinus == <<"=","R","O","U","N","D","(","2","-","S","U","M","(","A","1",":","A","2",")",",","0",")">>

\* =ROUND(SUM(A1:A2)/2+SUM(A3),0)
F_RoundTwoSums == <<"=","R","O","U","N","D","(","S","U","M","(","A","1",":","A","2",")","/","2","+","S","U","M","(","A","3",")",",","0",")">>

\* =ROUND(ROUND(SUM(A1:A2)/2,0)*3,0)
F_RoundRoundSum == <<"=","R","O","U","N","D","(","R","O","U","N","D","(","S","U","M","(","A","1",":","A","2",")","/","2",",","0",")","*","3",",","0",")">>

\* formulas whose outer function has an argument that is arithmetic around an
\* inner call, each with the number it denotes when A1:A2 sums to s and A3 is c
NestedArgumentFormulas ==
  {F_RoundHalfSum, F_RoundTwiceSum, F_RoundSumPlus, F_RoundSumMinus, F_RoundTwoSums,
   F_RoundRoundSum}

NestedArgumentValue(f, s, c) ==
  CASE f = F_RoundHalfSum -> s \div 2
    [] f = F_RoundTwiceSum -> s * 2
    [] f = F_RoundSumPlus -> 2 + s
    [] f = F_RoundSumMinus -> 2 - s
    [] f = F_RoundTwoSums -> s \div 2 + c
    [] f = F_RoundRoundSum -> (s \div 2) * 3

\* numbers of A1 and A2 (every sum of two of them is even) and of A3
EvenNumbers == {10, 4, 0, -2, -8}

NestedArgumentInputs ==
  {Input(f, ColumnWorkbook(Cell(Num(a)), Cell(Num(b)), Cell(Num(5))), "s1")
     : f \in NestedArgumentFormulas, a \in EvenNumbers, b \in EvenNumbers}

\* conditions of IF, each with its truth over the function workbook (B1 = 0,
\* B2 = 7): 1>0, 1<0, B2>0, B1>0
IfConditions ==
  {<<<<"1",">","0">>, TRUE>>, <<<<"1","<","0">>, FALSE>>,
   <<<<"B","2",">","0">>, TRUE>>, <<<<"B","1",">","0">>, FALSE>>}

\* branches to select, each with its value: 5, B2
SelectedBranches == {<<<<"5">>, 5>>, <<<<"B","2">>, 7>>}

\* branches not to select: FOO(1), FOO(1)+1, 1/0, A1 (the cell that holds the
\* formula), Missing.B2, SUM(A1:), 9
UnselectedBranches ==
  {<<"F","O","O","(","1",")">>, <<"F","O","O","(","1",")","+","1">>, <<"1","/","0">>,
   <<"A","1">>, <<"M","i","s","s","i","n","g",".","B","2">>,
   <<"S","U","M","(","A","1",":",")">>, <<"9">>}

\* =IF(condition,then,else)
IfFormula(c, t, e) == <<"=","I","F","(">> \o c \o <<",">> \o t \o <<",">> \o e \o <<")">>

\* A1 holds the formula evaluated
IfBranchInputs ==
  {Input(IfFormula(c[1], IF c[2] THEN s[1] ELSE u, IF c[2] THEN u ELSE s[1]),
         FunctionWorkbook(FormulaCell(IfFormula(c[1], IF c[2] THEN s[1] ELSE u,
                                                IF c[2] THEN u ELSE s[1]), Cached),
                          DataName),
         "s1")
     : c \in IfConditions, s \in SelectedBranches, u \in UnselectedBranches}

\* the reference A1 without and with absolute markers: A1, $A$1, $A1, A$1
ReferenceForms == {<<"A","1">>, <<"$","A","$","1">>, <<"$","A","1">>, <<"A","$","1">>}

\* =ref, =ref+1, =1+ref, =ref*2, =(ref)
ReferenceFormulas(ref) ==
  {<<"=">> \o ref, <<"=">> \o ref \o <<"+","1">>, <<"=","1","+">> \o ref,
   <<"=">> \o ref \o <<"*","2">>, <<"=","(">> \o ref \o <<")">>}

ReferencedCells ==
  {Cell(Num(10)), Cell(Num(-3)), Cell(Num(0)), Cell(Str(<<"5">>)), Cell(Null),
   FormulaCell(F_1Plus2, Cached)}

AbsoluteReferenceInputs ==
  {Input(f, FunctionWorkbook(a, DataName), "s1")
     : f \in UNION {ReferenceFormulas(ref) : ref \in ReferenceForms}, a \in ReferencedCells}

\* =INDIRECT("A1")
F_IndirectQuotedA1 == <<"=","I","N","D","I","R","E","C","T","(","\"","A","1","\"",")">>

\* =INDIRECT(B1)
F_IndirectB1 == <<"=","I","N","D","I","R","E","C","T","(","B","1",")">>

\* =INDIRECT("A1")+1
F_IndirectQuotedA1Plus1 ==
  <<"=","I","N","D","I","R","E","C","T","(","\"","A","1","\"",")","+","1">>

\* =INDIRECT("Data.B2")
F_IndirectQuotedDataB2 ==
  <<"=","I","N","D","I","R","E","C","T","(","\"","D","a","t","a",".","B","2","\"",")">>

IndirectFormulas ==
  {F_IndirectQuotedA1, F_IndirectB1, F_IndirectQuotedA1Plus1, F_IndirectQuotedDataB2}

\* contents of the cell named, each with the value a reference to it has
NamedCells ==
  {<<Cell(Num(10)), Num(10)>>, <<Cell(Num(-3)), Num(-3)>>,
   <<Cell(Str(<<"h","i">>)), Str(<<"h","i">>)>>, <<FormulaCell(F_1Plus2, Cached), Num(3)>>}

\* A1 is the cell named and B1 holds the text A1; Data.B2 is 42
IndirectWorkbook(a1) ==
  Workbook((A1 :> a1) @@ (B1 :> Cell(Str(<<"A","1">>))) @@ (B2 :> Cell(Num(7))),
           DataName, (B2 :> Cell(Num(42))))

IndirectInputs ==
  {Input(f, IndirectWorkbook(a[1]), "s1") : f \in IndirectFormulas, a \in NamedCells}

\* =2+3
F_2Plus3 == <<"=","2","+","3">>

\* the lookup values of MATCH as written in the formula, each with the key of
\* the contents equal to it: "apple", "pear", 5
LookupValues ==
  {<<<<"\"","a","p","p","l","e","\"">>, "apple">>, <<<<"\"","p","e","a","r","\"">>, "pear">>,
   <<<<"5">>, "five">>}

\* contents of a cell of the range searched, each with its key: two texts, the
\* number 5 as a number, as text and as the result of a formula, the number 0,
\* and an empty cell
MatchContents ==
  {<<Cell(Str(<<"a","p","p","l","e">>)), "apple">>, <<Cell(Str(<<"p","e","a","r">>)), "pear">>,
   <<Cell(Num(5)), "five">>, <<Cell(Str(<<"5">>)), "five">>,
   <<FormulaCell(F_2Plus3, Cached), "five">>, <<Cell(Num(0)), "zero">>,
   <<Cell(Null), "empty">>}

FewMatchContents ==
  {c \in MatchContents : c[1] \in {Cell(Str(<<"p","e","a","r">>)), Cell(Num(5)), Cell(Null)}}

\* =MATCH(lookup,A1:A3) and =MATCH(lookup,A1:C1)
MatchDown(lookup) ==
  <<"=","M","A","T","C","H","(">> \o lookup \o <<",","A","1",":","A","3",")">>

MatchAlong(lookup) ==
  <<"=","M","A","T","C","H","(">> \o lookup \o <<",","A","1",":","C","1",")">>

MatchInputs ==
  {Input(MatchDown(v[1]), ColumnWorkbook(a[1], b[1], c[1]), "s1")
     : v \in LookupValues, a \in MatchContents, b \in MatchContents, c \in MatchContents}
  \cup {Input(MatchAlong(v[1]),
              Workbook((A1 :> a[1]) @@ (B1 :> b[1]) @@ (C1 :> c[1]), DataName, <<>>), "s1")
          : v \in LookupValues, a \in FewMatchContents, b \in FewMatchContents,
            c \in FewMatchContents}

\* =AVERAGE(A1,A2)
F_AverageA1A2 == <<"=","A","V","E","R","A","G","E","(","A","1",",","A","2",")">>

\* =AVERAGE(A1:A2)
F_AverageRangeA1A2 == <<"=","A","V","E","R","A","G","E","(","A","1",":","A","2",")">>

\* =4-2
F_4Minus2 == <<"=","4","-","2">>

\* contents of A1 and A2 for the averages (even numbers, so that every mean of
\* one or two of them is an integer), each with the numbers it holds: one or none
AveragedContents ==
  {<<Cell(Num(4)), <<4>>>>, <<Cell(Num(8)), <<8>>>>, <<Cell(Num(-2)), <<-2>>>>,
   <<Cell(Num(0)), <<0>>>>, <<Cell(Str(<<"6">>)), <<6>>>>,
   <<FormulaCell(F_4Minus2, Cached), <<2>>>>,
   <<Cell(Str(<<"x">>)), <<>>>>, <<Cell(Str(<<>>)), <<>>>>, <<Cell(Null), <<>>>>}

AverageInputs ==
  {Input(f, ColumnWorkbook(a[1], b[1], EmptyCell), "s1")
     : f \in {F_AverageA1A2, F_AverageRangeA1A2}, a \in AveragedContents, b \in AveragedContents}

\* =(FOO(1))
F_ParenFoo == <<"=","(","F","O","O","(","1",")",")">>

\* =FOO(1)*2
F_FooTimes2 == <<"=","F","O","O","(","1",")","*","2">>

\* =1+FOO(1)
F_1PlusFoo == <<"=","1","+","F","O","O","(","1",")">>

\* =FOO(A1)+1
F_FooA1 == <<"=","F","O","O","(","A","1",")","+","1">>

\* =FOO(BAR(1))
F_FooOfBar == <<"=","F","O","O","(","B","A","R","(","1",")",")">>

\* =SUM(A1:A2)+FOO(1)
F_SumPlusFoo == <<"=","S","U","M","(","A","1",":","A","2",")","+","F","O","O","(","1",")">>

\* =FOO(1)&"a"
F_FooConcat == <<"=","F","O","O","(","1",")","&","\"","a","\"">>

\* ="a"&FOO(1)
F_ConcatFoo == <<"=","\"","a","\"","&","F","O","O","(","1",")">>

\* =ROUND(FOO(1),0)
F_RoundFoo == <<"=","R","O","U","N","D","(","F","O","O","(","1",")",",","0",")">>

\* =ROUND(FOO(1)+1,0)
F_RoundFooPlus1 == <<"=","R","O","U","N","D","(","F","O","O","(","1",")","+","1",",","0",")">>

\* =SUM(FOO(1))
F_SumFoo == <<"=","S","U","M","(","F","O","O","(","1",")",")">>

\* =SUM(A1,FOO(1))
F_SumA1Foo == <<"=","S","U","M","(","A","1",",","F","O","O","(","1",")",")">>

\* =SUM(FOO(1))+1
F_SumFooPlus1 == <<"=","S","U","M","(","F","O","O","(","1",")",")","+","1">>

\* =IF(FOO(1)>0,1,2)
F_IfFooGt0 == <<"=","I","F","(","F","O","O","(","1",")",">","0",",","1",",","2",")">>

\* =AVERAGE(FOO(1)+1)
F_AverageFoo == <<"=","A","V","E","R","A","G","E","(","F","O","O","(","1",")","+","1",")">>

\* an unknown function as the whole formula, in arithmetic, in a
\* concatenation
UnknownCallFormulas ==
  {F_Foo, F_FooPlus1, F_ParenFoo, F_FooTimes2, F_1PlusFoo, F_FooA1, F_FooOfBar, F_SumPlusFoo,
   F_FooConcat, F_ConcatFoo}

\* an unknown function in an argument of a library function
UnknownCallInArgumentFormulas ==
  {F_RoundFoo, F_RoundFooPlus1, F_SumFoo, F_SumA1Foo, F_SumFooPlus1, F_IfFooGt0, F_AverageFoo}

UnknownFunctionInputs ==
  {Input(f, FunctionWorkbook(a, DataName), "s1")
     : f \in UnknownCallFormulas \cup UnknownCallInArgumentFormulas,
       a \in {Cell(Num(10)), Cell(Str(<<"x">>)), Cell(Null)}}

\* =LEN("a"&"b")+1
F_LenConcatPlus1 == <<"=","L","E","N","(","\"","a","\"","&","\"","b","\"",")","+","1">>

\* =("a"&"b")
F_ParenConcat == <<"=","(","\"","a","\"","&","\"","b","\"",")">>

\* =1+(A1&B1)
F_1PlusParenA1B1 == <<"=","1","+","(","A","1","&","B","1",")">>

\* formulas whose every '&' lies inside a string literal or inside parentheses
EnclosedAmpersandFormulas ==
  {F_QuotedAmpersand, F_LenConcatPlus1, F_ParenConcat, F_1PlusParenA1B1}

EnclosedAmpersandInputs ==
  {Input(f, wb, "s1") : f \in EnclosedAmpersandFormulas,
                        wb \in {PlainWorkbook, ConcatWorkbook(Cell(Num(1)), Cell(Num(2)))}}


Inputs ==
  CycleInputs \cup FunctionCycleInputs \cup CrossSheetInputs \cup MissingSheetInputs
    \cup SumErrorInputs \cup IfErrorInputs \cup NestedErrorInputs \cup ConcatInputs
    \cup LiteralInputs \cup ThrowingInputs \cup SumRangeInputs
    \cup DivisionInputs \cup NestedArgumentInputs \cup IfBranchInputs
    \cup AbsoluteReferenceInputs \cup IndirectInputs \cup MatchInputs
    \cup AverageInputs \cup UnknownFunctionInputs \cup EnclosedAmpersandInputs

Init == \E inp \in Inputs : Call(inp.f, inp.wb, inp.sid)

Spec == Init /\ [][Next]_vars

\* evaluateArithmetic applied to each arithmetic text
ArithmeticInit == \E expr \in ArithmeticInputs : CallArithmetic(expr)
ArithmeticSpec == ArithmeticInit /\ [][ArithmeticNext]_vars

\* the longest argument text
MaxArgsLen == 4

ArgumentChars == {"a", ",", "(", ")", "\"", "\\", " "}

ArgumentTexts == UNION {[1..n -> ArgumentChars] : n \in 0..MaxArgsLen}

ArgumentsInit == \E argsStr \in ArgumentTexts : CallArguments(argsStr)
ArgumentsSpec == ArgumentsInit /\ [][ArgumentsNext]_vars

\* the largest column index and the longest column name
MaxColumn == 730
MaxLetters == 2

LetterStrings == UNION {[1..n -> Upper] : n \in 1..MaxLetters}

ColumnInit ==
  \/ \E index \in 0..MaxColumn : CallHeader(index)
  \/ \E letters \in LetterStrings : CallIndices(letters)

ColumnSpec == ColumnInit /\ [][ColumnNext]_vars

\* the grid or the tools hold a workbook and wait for an operation
Open(wb, side) ==
  /\ workbook = wb
  /\ formula = <<>>
  /\ sheetId = wb.sheets[1].id
  /\ returnValue = Undefined
  /\ pc = side
  /\ history = IF side = "idle" THEN <<HistoryEntry(wb, "Loaded from storage")>> ELSE <<>>
  /\ currentIndex = IF side = "idle" THEN 0 ELSE -1
  /\ sharedWith = -1
  /\ evaluatingSet = {}
  /\ callStack = <<>>

\* a workbook of the one sheet "s1"
SingleSheetWorkbook == [sheets |-> <<Sheet("s1", SheetOneName, (A1 :> Cell(Num(10))))>>]

SheetNames == {SheetOneName, DataName}

SheetNext ==
  \/ \E name \in SheetNames, id \in SheetIdPool : createSheetTool(name, id)
  \/ \E id \in SheetIdPool : deleteSheetTool(id)
  \/ \E id \in SheetIdPool, name \in SheetNames : renameSheetTool(id, name)
  \/ \E id, newId \in SheetIdPool, name \in SheetNames : copySheetTool(id, name, newId)
  \/ \E name \in SheetNames, id \in SheetIdPool : createSheet(name, id)
  \/ \E id \in SheetIdPool : deleteSheet(id)
  \/ \E id \in SheetIdPool, name \in SheetNames : renameSheet(id, name)

SheetInit ==
  \E wb \in {SingleSheetWorkbook, PlainWorkbook}, side \in {"tools", "idle"} : Open(wb, side)

SheetSpec == SheetInit /\ [][SheetNext]_vars

\* =C{ROW}-B{ROW}
P_CMinusB == <<"=","C","{","R","O","W","}","-","B","{","R","O","W","}">>

\* ={COL}{ROW}*2
P_ColRow == <<"=","{","C","O","L","}","{","R","O","W","}","*","2">>

\* =SUM(A1:A{ROW})
P_SumToRow == <<"=","S","U","M","(","A","1",":","A","{","R","O","W","}",")">>

\* =$B$1+{ROW}
P_AbsoluteB1 == <<"=","$","B","$","1","+","{","R","O","W","}">>

\* =B1+1
P_RelativeB1 == <<"=","B","1","+","1">>

RangePatterns == {P_CMinusB, P_ColRow, P_SumToRow, P_AbsoluteB1, P_RelativeB1}

\* the patterns whose only relative references come from the placeholders
PlaceholderPatterns == {P_CMinusB, P_ColRow, P_AbsoluteB1}

\* startCell and endCell: D5:D10, A1:B2, B2:B2, A1:A3, D5:D5, the empty
\* range C1:A1 and a start cell the tool does not accept
RangeCorners ==
  { <<<<"D","5">>, <<"D","1","0">>>>, <<<<"A","1">>, <<"B","2">>>>,
    <<<<"B","2">>, <<"B","2">>>>, <<<<"A","1">>, <<"A","3">>>>,
    <<<<"D","5">>, <<"D","5">>>>, <<<<"C","1">>, <<"A","1">>>>,
    <<<<"$","A","$","1">>, <<"B","2">>>> }

RangeParams(sid, corners, pattern) ==
  [sheetId |-> sid, startCell |-> corners[1], endCell |-> corners[2],
   formulaPattern |-> pattern]

RangeInit ==
  \E sid \in {"s1", NoSuchSheetId}, corners \in RangeCorners, pattern \in RangePatterns :
    Call(RangeParams(sid, corners, pattern), PlainWorkbook, "s1")

RangeSpec == RangeInit /\ [][RangeNext]_vars

D1 == <<0, 3>>

\* =B1+C1
F_B1PlusC1 == <<"=","B","1","+","C","1">>

\* =D1
F_D1 == <<"=","D","1">>

\* =D1+D1
F_D1PlusD1 == <<"=","D","1","+","D","1">>

\* =B1+D1
F_B1PlusD1 == <<"=","B","1","+","D","1">>

\* =B1
F_B1 == <<"=","B","1">>

\* =A1+1
F_A1Plus1 == <<"=","A","1","+","1">>

\* a workbook whose sheet "s1" holds the given cells and no others
GuardWorkbook(cells) == [sheets |-> <<[id |-> "s1", name |-> SheetOneName, data |-> cells]>>]

\* what the cell reached twice holds
SharedCells ==
  {Cell(Num(4)), Cell(Null), Cell(Str(NotAvailableText)), FormulaCell(F_1Plus2, Cached)}

\* A1 = "=B1+C1", B1 = "=D1", C1 = "=D1"
DiamondWorkbook(d1) ==
  GuardWorkbook((A1 :> FormulaCell(F_B1PlusC1, Cached)) @@ (B1 :> FormulaCell(F_D1, Cached))
                  @@ (C1 :> FormulaCell(F_D1, Cached)) @@ (D1 :> d1))

\* A1 = "=D1+D1"
TwiceWorkbook(d1) == GuardWorkbook((A1 :> FormulaCell(F_D1PlusD1, Cached)) @@ (D1 :> d1))

\* A1 = "=B1+C1", B1 = "=D1+D1", C1 = "=B1+D1"
NestedDiamondWorkbook(d1) ==
  GuardWorkbook((A1 :> FormulaCell(F_B1PlusC1, Cached)) @@ (B1 :> FormulaCell(F_D1PlusD1, Cached))
                  @@ (C1 :> FormulaCell(F_B1PlusD1, Cached)) @@ (D1 :> d1))

\* the workbooks without a cycle
AcyclicGuardWorkbooks ==
  {DiamondWorkbook(d1) : d1 \in SharedCells} \cup {TwiceWorkbook(d1) : d1 \in SharedCells}
    \cup {NestedDiamondWorkbook(d1) : d1 \in SharedCells}

\* A1 = "=B1", B1 = "=A1+1";  A1 = "=A1";  A1 = "=B1+C1", B1 = "=D1", C1 = "=A1+1"
CyclicGuardWorkbooks ==
  { GuardWorkbook((A1 :> FormulaCell(F_B1, Cached)) @@ (B1 :> FormulaCell(F_A1Plus1, Cached))),
    GuardWorkbook((A1 :> FormulaCell(F_A1, Cached))),
    GuardWorkbook((A1 :> FormulaCell(F_B1PlusC1, Cached)) @@ (B1 :> FormulaCell(F_D1, Cached))
                    @@ (C1 :> FormulaCell(F_A1Plus1, Cached)) @@ (D1 :> Cell(Num(4)))) }

\* getCellValue(workbook, "s1", cellRef) called with a Set of its own
GuardInit ==
  \E wb \in AcyclicGuardWorkbooks \cup CyclicGuardWorkbooks,
     cellRef \in {<<"A","1">>, <<"C","1">>, <<"D","1">>, <<"E","9">>} :
    Call(cellRef, wb, "s1")

GuardSpec == GuardInit /\ [][GuardNext]_vars

\* SUM(A1:B2)
F_SumNoEquals == <<"S","U","M","(","A","1",":","B","2",")">>

\* {COL}{ROW}
P_NoEquals == <<"{","C","O","L","}","{","R","O","W","}">>

\* the parameters the cell-writing tools are called with
SetDataParams ==
  {[sheetId |-> sid, range |-> range, data |-> data] :
     sid \in {"s1", NoSuchSheetId},
     range \in {<<"A","1">>, <<"A","1",":","B","1">>},
     data \in {<<<<Str(F_A1), Num(5)>>>>, <<<<Str(<<>>)>>>>}}

ApplyFormulaParams ==
  {[sheetId |-> "s1", cell |-> cell, formula |-> f] :
     cell \in {<<"A","1">>, <<"B","3">>}, f \in {F_1Plus2, F_SumNoEquals}}

SetDataGridParams ==
  {[sheetId |-> "s1", startCell |-> <<"B","1">>, data |-> data] :
     data \in {<<<<Num(1)>>, <<Str(F_A1), Str(<<>>)>>>>}}

ApplyFormulaToRangeParams ==
  {RangeParams("s1", <<<<"A","1">>, <<"A","2">>>>, pattern) : pattern \in {P_ColRow, P_NoEquals}}

\* the texts typed into a cell of the grid
EditedTexts == {F_1Plus2, F_A1Plus1, <<"x">>, <<>>}

MutationNext ==
  \/ \E params \in SetDataParams : setData(params)
  \/ \E params \in ApplyFormulaParams : applyFormula(params)
  \/ \E params \in SetDataGridParams : setDataGrid(params)
  \/ \E params \in ApplyFormulaToRangeParams : applyFormulaToRangeTool(params)
  \/ \E row \in {0, 2}, col \in {0, 1}, value \in EditedTexts : updateCell("s1", row, col, value)

MutationInit == \E side \in {"tools", "idle"} : Open(PlainWorkbook, side)

MutationSpec == MutationInit /\ [][MutationNext]_vars

\* edits of the grid with undo and redo
EditNext ==
  \/ \E row \in {0, 2}, col \in {0, 1}, value \in {<<"x">>, <<>>, F_1Plus2} :
       updateCell("s1", row, col, value)
  \/ Undo
  \/ Redo

EditInit == Open(PlainWorkbook, "idle")

EditSpec == EditInit /\ [][EditNext]_vars

\* the workbooks loaded one after the other: cell A1 counts modulo
\* CounterCycle, so that an entry of the history tells which one came first
CounterCycle == 3

CounterWorkbook(n) == [sheets |-> <<Sheet("s1", SheetOneName, (A1 :> Cell(Num(n))))>>]

\* the workbook loaded when the grid shows wb (Null before the first one)
NextLoaded(wb) ==
  IF wb = Null THEN CounterWorkbook(0)
  ELSE CounterWorkbook((ValueAt(SheetOf(wb, "s1"), 0, 0).v + 1) % CounterCycle)

HistoryNext ==
  \/ loadWorkbook(NextLoaded(workbook))
  \/ Undo
  \/ Redo

\* useWorkbookHistory(null): no workbook and an empty history
HistoryInit ==
  /\ workbook = Null
  /\ formula = <<>>
  /\ sheetId = ""
  /\ returnValue = Undefined
  /\ pc = "idle"
  /\ history = <<>>
  /\ currentIndex = -1
  /\ sharedWith = -1
  /\ evaluatingSet = {}
  /\ callStack = <<>>

HistorySpec == HistoryInit /\ [][HistoryNext]_vars

\* the call the state is about
CurrentInput == Input(formula, workbook, sheetId)

HasReturned == pc = "returned"

\* every evaluation stays inside the part of the language the model computes
ModelCovers == HasReturned => ~IsUnmodelled(returnValue)

(***************************************************************************)
(* Properties                                                              *)
(***************************************************************************)
\* the formula evaluated begins with "="
IsFormula == formula # <<>> /\ Head(formula) = "="

\* what evaluateFormula's call of evaluateExpression yields for the state's call
ExpressionResult ==
  evaluateExpression(Trim(Tail(formula)), workbook, sheetId, {}, MaxDepth - 1)

DirectCycleIsCircular ==
  (HasReturned /\ CurrentInput \in CycleInputs) => returnValue = ErrCircular

\* a two-cell cycle A1 = "=B1", B1 = "=A1" has been evaluated to "#CIRCULAR!"
DirectCycleEvaluated ==
  /\ HasReturned
  /\ CurrentInput \in CycleInputs
  /\ formula = <<"=", "B", "1">>
  /\ workbook.sheets[1].data[B1].formula = <<"=", "A", "1">>
  /\ returnValue = ErrCircular

\* C3: a cycle that passes through a function argument (A1 = "=SUM(A1:A2)",
\* "=ROUND(A1,0)", "=INDEX(A1:A1,1)") evaluates to "#CIRCULAR!", the in-flight
\* set being handed on to every recursive call.
FunctionCycleIsCircular ==
  (HasReturned /\ CurrentInput \in FunctionCycleInputs) => returnValue = ErrCircular

\* C4: a reference to cell B2 of an existing sheet, quoted or unquoted,
\* evaluates to that cell's value, 42.
CrossSheetReferenceResolves ==
  (HasReturned /\ CurrentInput \in CrossSheetInputs) => returnValue = Num(42)

\* C5: a reference to a sheet the workbook does not have makes the whole
\* formula "#REF!", alone or as an operand, quoted or unquoted.
MissingSheetIsRefError ==
  (HasReturned /\ CurrentInput \in MissingSheetInputs) => returnValue = ErrRef

\* the value of cell A1 of the sheet the formula is evaluated on
ValueOfA1 == getCellValue(workbook, sheetId, <<"A", "1">>, {}, MaxDepth)

\* C6: SUM over a range or a cell that evaluates to an error sentinel returns
\* that error.
SumPropagatesError ==
  (HasReturned /\ CurrentInput \in SumErrorInputs) =>
    IsErrorValue(ValueOfA1) /\ returnValue = ValueOfA1

\* C7: IF whose condition evaluates to an error sentinel returns that error,
\* not the false branch.
IfPropagatesConditionError ==
  (HasReturned /\ CurrentInput \in IfErrorInputs) =>
    IsErrorValue(ValueOfA1) /\ returnValue = ValueOfA1

\* C8: an arithmetic expression around a function call that returns an error
\* sentinel ("#N/A" of a VLOOKUP miss, "#REF!" of INDEX) evaluates to that error.
NestedFunctionErrorPropagates ==
  (HasReturned /\ CurrentInput \in NestedErrorInputs) =>
    returnValue = IF formula = F_IndexPlus1 THEN ErrRef ELSE ErrNA

\* the parts of the concatenation evaluated and the value of part k
ConcatenationParts == smartSplit(Trim(Tail(formula)), "&")

PartValue(k) ==
  evaluateExpression(Trim(ConcatenationParts[k]), workbook, sheetId, {}, MaxDepth)

ErrorParts == {k \in 1..Len(ConcatenationParts) : IsErrorValue(PartValue(k))}

\* C9: a concatenation with "&" in which a part evaluates to an error sentinel
\* returns exactly the error of the first such part from the left.
ConcatenationReturnsFirstError ==
  (HasReturned /\ CurrentInput \in ConcatInputs /\ ErrorParts # {}) =>
    returnValue = PartValue(CHOOSE k \in ErrorParts : \A j \in ErrorParts : k <= j)

\* =A2&A1&B1 with A1 = "#N/A" and B1 = "=1/0" has returned "#N/A"
ConcatenationStoppedAtFirstError ==
  /\ HasReturned
  /\ CurrentInput \in ConcatInputs
  /\ formula = <<"=", "A", "2", "&", "A", "1", "&", "B", "1">>
  /\ ErrorParts = {2, 3}
  /\ PartValue(3) = ErrDiv0
  /\ returnValue = ErrNA

Contribution(row, col) ==
  (CHOOSE c \in SumContents : c[1] = workbook.sheets[1].data[<<row, col>>])[2]

DivisionByZeroIsError ==
  (HasReturned /\ CurrentInput \in DivisionInputs) =>
    LET a == toNumber(workbook.sheets[1].data[A1].value)
        b == IF HasCell(workbook.sheets[1], 0, 1)
             THEN toNumber(workbook.sheets[1].data[B1].value) ELSE Num(0)
    IN returnValue = IF b.v # 0 THEN Num(a.v \div b.v)
                     ELSE IF a.v # 0 THEN ErrDiv0 ELSE ErrNum

\* C12: evaluateArithmetic returns "#DIV/0!" for a number other than 0 divided
\* by 0, "#NUM!" for 0 divided by 0, and never returns an infinite or NaN
\* number.
ArithmeticNeverInfinite ==
  pc = "returned" =>
    /\ \A l \in ArithmeticLeft \ {<<"0">>}, op \in DivisionOps, r \in ZeroTexts :
         formula = l \o op \o r => returnValue = ErrDiv0
    /\ \A op \in DivisionOps, r \in ZeroTexts :
         formula = <<"0">> \o op \o r => returnValue = ErrNum
    /\ returnValue.t \notin {"inf", "ninf", "nan"}

\* what is left of C12 when the texts that are one decimal number are set
\* aside: the result of an evaluated expression is never infinite or NaN
EvaluatedArithmeticNeverInfinite ==
  (pc = "returned" /\ ~IsPlainNumber(RemoveChars(formula, SpaceChar))) =>
    /\ \A l \in ArithmeticLeft \ {<<"0">>}, op \in DivisionOps, r \in ZeroTexts :
         formula = l \o op \o r => returnValue = ErrDiv0
    /\ \A op \in DivisionOps, r \in ZeroTexts :
         formula = <<"0">> \o op \o r => returnValue = ErrNum
    /\ returnValue.t \notin {"inf", "ninf", "nan", "unmodelled"}

OuterArgument == parseArguments(Substring(formula, 7, Len(formula) - 1))[1]

SumOfA1A2 ==
  workbook.sheets[1].data[<<0, 0>>].value.v + workbook.sheets[1].data[<<1, 0>>].value.v

\* C14: in =ROUND(SUM(A1:A2)/2,1) and the like, the inner call and the
\* arithmetic around it are reduced to a number and ROUND is applied to that
\* number; the replacement of calls in the argument ends, and ends with a text
\* that holds no function call.
NestedArgumentReducedFirst ==
  (HasReturned /\ CurrentInput \in NestedArgumentInputs) =>
    /\ returnValue = Num(NestedArgumentValue(formula, SumOfA1A2, 5))
    /\ FindFunctionCall(replaceFunctionCalls(OuterArgument, workbook, sheetId, {}, MaxDepth), 0) = -1

\* C14 apart from a subtraction of a negative inner result: the value is the
\* one the formula denotes, and no function call is left in the argument
NestedArgumentReducedUnlessDoubleMinus ==
  (/\ HasReturned
   /\ CurrentInput \in NestedArgumentInputs
   /\ ~(formula = F_RoundSumMinus /\ SumOfA1A2 < 0)) =>
    /\ returnValue = Num(NestedArgumentValue(formula, SumOfA1A2, 5))
    /\ FindFunctionCall(replaceFunctionCalls(OuterArgument, workbook, sheetId, {}, MaxDepth), 0) = -1

\* the replacement of calls leaves no call in any argument, the subtraction of
\* a negative result included
NestedCallsAllReplaced ==
  (HasReturned /\ CurrentInput \in NestedArgumentInputs) =>
    FindFunctionCall(replaceFunctionCalls(OuterArgument, workbook, sheetId, {}, MaxDepth), 0) = -1

\* the value of the branch that the condition of the formula evaluated selects
SelectedBranchValue ==
  (CHOOSE x \in IfConditions \X SelectedBranches \X UnselectedBranches :
     formula = IfFormula(x[1][1], IF x[1][2] THEN x[2][1] ELSE x[3],
                         IF x[1][2] THEN x[3] ELSE x[2][1]))[2][2]

\* C15: =IF(condition,then,else) returns the value of the branch its condition
\* selects, whatever the other branch holds: an unknown function, a range
\* that cannot be parsed, an error, a reference to the cell that holds the
\* formula.
IfEvaluatesSelectedBranchOnly ==
  (HasReturned /\ CurrentInput \in IfBranchInputs) =>
    returnValue = Num(SelectedBranchValue)

\* the branch not selected is evaluated, and the call that throws in it ends
\* the formula; every other content leaves the result as it is
IfEvaluatesBothBranches ==
  (HasReturned /\ CurrentInput \in IfBranchInputs) =>
    returnValue =
      IF \E c \in IfConditions, s \in SelectedBranches,
            u \in {<<"F","O","O","(","1",")">>, <<"S","U","M","(","A","1",":",")">>} :
           formula = IfFormula(c[1], IF c[2] THEN s[1] ELSE u, IF c[2] THEN u ELSE s[1])
      THEN ErrError
      ELSE Num(SelectedBranchValue)

\* C16: a formula that refers to A1 as $A$1, $A1 or A$1, alone or as an
\* operand, returns what the same formula returns with the markers left out.
AbsoluteMarkersChangeNothing ==
  (HasReturned /\ CurrentInput \in AbsoluteReferenceInputs) =>
    returnValue = evaluateFormula(RemoveChars(formula, {"$"}), workbook, sheetId, {}, MaxDepth)

\* a marker after the column letter changes nothing; a reference that begins
\* with a marker is left in the text, which is returned as it is or, in an
\* arithmetic expression, evaluates to "#ERROR!"
LeadingMarkerBlocksSubstitution ==
  (HasReturned /\ CurrentInput \in AbsoluteReferenceInputs) =>
    returnValue =
      IF ~Includes(formula, <<"$","A">>)
      THEN evaluateFormula(RemoveChars(formula, {"$"}), workbook, sheetId, {}, MaxDepth)
      ELSE IF Tail(formula) \in ReferenceForms THEN Str(Tail(formula))
      ELSE ErrError

\* the value of the cell that the reference string of the formula names
NamedCellValue ==
  IF formula = F_IndirectQuotedDataB2 THEN Num(42)
  ELSE (CHOOSE c \in NamedCells : c[1] = workbook.sheets[1].data[A1])[2]

\* C17: =INDIRECT("A1"), =INDIRECT(B1) with B1 holding the text A1, and
\* =INDIRECT("Data.B2") return the value of the cell named (and
\* =INDIRECT("A1")+1 that value plus 1).
IndirectReturnsNamedCell ==
  (HasReturned /\ CurrentInput \in IndirectInputs) =>
    returnValue = IF formula = F_IndirectQuotedA1Plus1
                  THEN JsAdd(toNumber(NamedCellValue), Num(1))
                  ELSE NamedCellValue

\* the reference string is substituted by the value of the cell it names before
\* INDIRECT reads it, so the cell INDIRECT looks up does not exist: 0
IndirectReturnsZero ==
  (HasReturned /\ CurrentInput \in IndirectInputs) =>
    returnValue = IF formula = F_IndirectQuotedA1Plus1 THEN Num(1) ELSE Num(0)

\* the key of the lookup value of the formula, and the keys of the three cells
\* of the range it searches, in order
LookupKey == (CHOOSE v \in LookupValues : formula \in {MatchDown(v[1]), MatchAlong(v[1])})[2]

SearchedKeys ==
  LET along == \E v \in LookupValues : formula = MatchAlong(v[1])
      KeyOf(k) ==
        (CHOOSE c \in MatchContents :
           c[1] = workbook.sheets[1].data[IF along THEN <<0, k - 1>> ELSE <<k - 1, 0>>])[2]
  IN <<KeyOf(1), KeyOf(2), KeyOf(3)>>

\* C18: MATCH over a range of one column or one row returns the 1-based
\* position of the first cell equal to the lookup value and "#N/A" when there
\* is none; a text is equal to the same text only, never to another text, a
\* number or an empty cell.
MatchFindsFirstEqual ==
  (HasReturned /\ CurrentInput \in MatchInputs) =>
    returnValue =
      IF \E k \in 1..3 : SearchedKeys[k] = LookupKey
      THEN Num(CHOOSE k \in 1..3 : /\ SearchedKeys[k] = LookupKey
                                   /\ \A j \in 1..(k - 1) : SearchedKeys[j] # LookupKey)
      ELSE ErrNA

\* the number toNumber makes of a content with the given key
KeyNumber(key) == IF key = "five" THEN 5 ELSE 0

\* what MATCH computes: the first cell whose number equals the number of the
\* lookup value, every text that is not a number and every empty cell being 0
MatchComparesNumbers ==
  (HasReturned /\ CurrentInput \in MatchInputs) =>
    returnValue =
      IF \E k \in 1..3 : KeyNumber(SearchedKeys[k]) = KeyNumber(LookupKey)
      THEN Num(CHOOSE k \in 1..3 :
                 /\ KeyNumber(SearchedKeys[k]) = KeyNumber(LookupKey)
                 /\ \A j \in 1..(k - 1) : KeyNumber(SearchedKeys[j]) # KeyNumber(LookupKey))
      ELSE ErrNA

\* the numbers held by A1 and A2, in order
AveragedNumbers ==
  LET Held(k) == (CHOOSE c \in AveragedContents : c[1] = workbook.sheets[1].data[<<k, 0>>])[2]
  IN Held(0) \o Held(1)

\* the sum of a sequence of integers
RECURSIVE Total(_)
Total(numbers) == IF numbers = <<>> THEN 0 ELSE Head(numbers) + Total(Tail(numbers))

\* C19: =AVERAGE(A1,A2) returns what =AVERAGE(A1:A2) returns, the mean of the
\* cells that hold a number (0 when there is none): a cell holding text that is
\* not a number, or nothing, adds neither to the sum nor to the count.
AverageOfCellsIsAverageOfRange ==
  (HasReturned /\ CurrentInput \in AverageInputs) =>
    /\ returnValue = evaluateFormula(F_AverageRangeA1A2, workbook, sheetId, {}, MaxDepth)
    /\ returnValue = IF AveragedNumbers = <<>> THEN Num(0)
                     ELSE Num(Total(AveragedNumbers) \div Len(AveragedNumbers))

\* the range form is the mean of the cells holding a number; the form with one
\* argument per cell counts every cell, a text or an empty cell as 0
AverageOfCellsCountsEveryCell ==
  (HasReturned /\ CurrentInput \in AverageInputs) =>
    returnValue =
      IF formula = F_AverageA1A2
      THEN Num(Total(AveragedNumbers) \div 2)
      ELSE IF AveragedNumbers = <<>> THEN Num(0)
      ELSE Num(Total(AveragedNumbers) \div Len(AveragedNumbers))

\* C20: a formula that calls a function that is not in the library returns
\* "#ERROR!", wherever the call stands: as the whole formula, inside an
\* arithmetic expression or a concatenation, inside an argument of a library
\* function.
UnknownFunctionIsError ==
  (HasReturned /\ CurrentInput \in UnknownFunctionInputs) => returnValue = ErrError

\* as the whole formula, in arithmetic and in a concatenation the unknown call
\* gives "#ERROR!"; in an argument of a library function the result is that
\* function's: "#ERROR!" where the argument is evaluated as a call, a number
\* or NaN where it is read as a number
UnknownFunctionOutsideArguments ==
  (HasReturned /\ CurrentInput \in UnknownFunctionInputs) =>
    returnValue =
      CASE formula \in {F_RoundFooPlus1, F_AverageFoo} -> Num(0)
        [] formula \in {F_SumFoo, F_SumA1Foo} -> NaN
        [] OTHER -> ErrError

(***************************************************************************)
(* C21: sheet management never leaves the workbook without a sheet         *)
(***************************************************************************)
\* deleteSheet is called on the last remaining sheet or with an unknown id
DeleteRefused(id) ==
  /\ deleteSheetTool(id) \/ deleteSheet(id)
  /\ Len(workbook.sheets) <= 1 \/ id \notin SheetIds(workbook)

\* C21: after any sequence of createSheet, copySheet, renameSheet and
\* deleteSheet on a workbook that starts with a sheet the workbook has a
\* sheet; deleteSheet on the last remaining sheet or with an unknown id
\* leaves the sheets as they are, and the tool reports the failure
WorkbookKeepsASheet ==
  /\ [](Len(workbook.sheets) >= 1)
  /\ [][\A id \in SheetIdPool :
          DeleteRefused(id) =>
            /\ workbook'.sheets = workbook.sheets
            /\ pc = "tools" => ~returnValue'.success]_vars

\* deleteSheet was refused on the last remaining sheet
LastSheetDeletionRefused ==
  /\ pc = "tools"
  /\ Len(workbook.sheets) = 1
  /\ returnValue = ToolError("Cannot delete the last remaining sheet in the workbook")


(***************************************************************************)
(* C22: the formulas applyFormulaToRange stores                            *)
(***************************************************************************)
\* the pattern with {ROW} and {COL} replaced for the cell (row, col)
PlaceholdersReplaced(pattern, row, col) ==
  ReplaceAll(ReplaceAll(pattern, <<"{","R","O","W","}">>, String(Num(row + 1))),
             <<"{","C","O","L","}">>, ColumnLetters(col))

\* the cells of the rectangle startCell:endCell of the call
RangeOfCall ==
  LET s == cellToIndicesStrict(formula.startCell)
      e == cellToIndicesStrict(formula.endCell)
  IN (s.row..e.row) \X (s.col..e.col)

RangeApplies == pc = "returned" /\ returnValue = ToolOk

\* C22: every cell of the rectangle holds the pattern with {ROW} replaced
\* by its own row number and {COL} by its own column letters, the
\* references so produced not being shifted again
RangeStoresOwnRowAndColumn ==
  (RangeApplies /\ formula.formulaPattern \in PlaceholderPatterns) =>
    \A p \in RangeOfCall :
      SheetOf(workbook, formula.sheetId).data[p].formula
        = PlaceholdersReplaced(formula.formulaPattern, p[1], p[2])

\* the start cell holds the pattern with the placeholders replaced, and
\* every cell of the rectangle holds a formula
RangeStartCellUnshifted ==
  (RangeApplies /\ RangeOfCall # {}) =>
    LET s == cellToIndicesStrict(formula.startCell)
    IN /\ SheetOf(workbook, formula.sheetId).data[<<s.row, s.col>>].formula
            = PlaceholdersReplaced(formula.formulaPattern, s.row, s.col)
       /\ \A p \in RangeOfCall :
            SheetOf(workbook, formula.sheetId).data[p].formula # <<>>


(***************************************************************************)
(* C23, C24: the set of cells in evaluation                                *)
(***************************************************************************)
\* the keys of the calls that wait for evaluateFormula
InFlightKeys == {callStack[k].key : k \in DOMAIN callStack}

\* C23: the set after a getCellValue call holds what it held before the
\* call, on the normal path and on the caught-exception path, and it is
\* empty when the outermost call has returned
EvaluatingSetRestored ==
  /\ [](pc = "returned" => evaluatingSet = {})
  /\ [][/\ Len(callStack') < Len(callStack) =>
             evaluatingSet' = callStack[Len(callStack)].before
        /\ Len(callStack') = Len(callStack) => evaluatingSet' = evaluatingSet]_vars

\* the nested calls of the diamond over a formula cell have all returned
NestedCallsReturned ==
  /\ pc = "returned"
  /\ workbook = DiamondWorkbook(FormulaCell(F_1Plus2, Cached))
  /\ formula = <<"A","1">>
  /\ returnValue = Num(6)
  /\ evaluatingSet = {}

\* C24: the set holds only cells whose call is on the stack, so the guard
\* reports a cycle for an ancestor only, and in a workbook without a cycle
\* no getCellValue call returns "#CIRCULAR!"
CircularOnlyForAncestors ==
  /\ evaluatingSet \subseteq InFlightKeys
  /\ workbook \in AcyclicGuardWorkbooks => returnValue # ErrCircular

\* A1 = "=B1+C1" over B1 = "=D1+D1" and C1 = "=B1+D1" has been evaluated:
\* B1 and D1 were reached more than once
SharedCellEvaluatedTwice ==
  /\ pc = "returned"
  /\ workbook = NestedDiamondWorkbook(FormulaCell(F_1Plus2, Cached))
  /\ formula = <<"A","1">>
  /\ returnValue = Num(15)


(***************************************************************************)
(* C25: an '&' inside a string literal or inside parentheses               *)
(***************************************************************************)
\* the expression has an '&' at parenthesis depth 0 outside string literals
HasTopLevelAmpersand(expr) == Len(smartSplit(expr, "&")) > 1

\* C25: an expression whose every '&' lies inside a string literal or
\* inside parentheses is not split and its evaluation ends without using up
\* the call stack
EnclosedAmpersandTerminates ==
  (HasReturned /\ CurrentInput \in EnclosedAmpersandInputs) =>
    /\ ~HasTopLevelAmpersand(Trim(Tail(formula)))
    /\ evaluateFormulaUncaught(formula, workbook, sheetId, {}, MaxDepth) # Thrown("RangeError")

\* such an expression is not split, and an expression with a top-level '&'
\* is evaluated part by part without using up the call stack
TopLevelAmpersandTerminates ==
  /\ (HasReturned /\ CurrentInput \in EnclosedAmpersandInputs) =>
       /\ smartSplit(Trim(Tail(formula)), "&") = <<Trim(Tail(formula))>>
       /\ returnValue = ErrError
  /\ (HasReturned /\ CurrentInput \in ConcatInputs) =>
       evaluateFormulaUncaught(formula, workbook, sheetId, {}, MaxDepth) # Thrown("RangeError")


(***************************************************************************)
(* C26: the formulas the mutation operations store                         *)
(***************************************************************************)
\* C26: after any sequence of updateCell, setData, setDataGrid, applyFormula
\* and applyFormulaToRange every formula a cell holds starts with '='
StoredFormulasStartWithEquals ==
  pc \in {"tools", "idle"} =>
    \A k \in DOMAIN workbook.sheets : \A p \in DOMAIN workbook.sheets[k].data :
      LET f == workbook.sheets[k].data[p].formula
      IN f # <<>> => Head(f) = "="

\* the formulas updateCell stores start with '=', and setData and
\* setDataGrid store no formula
GridFormulasStartWithEquals ==
  pc = "idle" =>
    \A k \in DOMAIN workbook.sheets : \A p \in DOMAIN workbook.sheets[k].data :
      LET f == workbook.sheets[k].data[p].formula
      IN f # <<>> => Head(f) = "="


(***************************************************************************)
(* C27: parseArguments splits at the top-level commas                      *)
(***************************************************************************)
\* the quotes before position i (1-based) that no backslash precedes
UnescapedQuotesBefore(s, i) ==
  {j \in 1..(i - 1) : s[j] = "\"" /\ (j = 1 \/ s[j - 1] # "\\")}

\* position i lies inside a double-quoted string literal
InLiteral(s, i) == Cardinality(UnescapedQuotesBefore(s, i)) % 2 = 1

\* the parentheses open at position i: every ')' outside a literal closes
\* the last '(' that is still open, and closes nothing when none is
RECURSIVE OpenParensAt(_, _)
OpenParensAt(s, i) ==
  IF i = 0 THEN 0
  ELSE LET open == OpenParensAt(s, i - 1)
       IN IF InLiteral(s, i) THEN open
          ELSE IF s[i] = "(" THEN open + 1
          ELSE IF s[i] = ")" /\ open > 0 THEN open - 1
          ELSE open

\* the commas outside every parenthesis and every string literal
TopLevelCommas(s) ==
  {i \in 1..Len(s) : s[i] = "," /\ ~InLiteral(s, i) /\ OpenParensAt(s, i) = 0}

\* the trimmed texts between consecutive split points, from position from on
RECURSIVE SegmentsFrom(_, _, _)
SegmentsFrom(s, points, from) ==
  LET later == {p \in points : p >= from}
  IN IF later = {} THEN <<Trim(SubSeq(s, from, Len(s)))>>
     ELSE LET p == CHOOSE q \in later : \A r \in later : q <= r
          IN <<Trim(SubSeq(s, from, p - 1))>> \o SegmentsFrom(s, points, p + 1)

\* args are the segments of s, an empty last segment possibly left out
SplitsAt(s, points, args) ==
  LET segments == SegmentsFrom(s, points, 1)
  IN \/ args = segments
     \/ /\ segments[Len(segments)] = <<>>
        /\ args = SubSeq(segments, 1, Len(segments) - 1)

\* C27: parseArguments splits at every comma outside parentheses and string
\* literals and at no other, and returns the trimmed texts in between
ArgumentsSplitAtTopLevelCommas ==
  pc = "returned" /\ returnValue.t = "array" =>
    SplitsAt(formula, TopLevelCommas(formula), returnValue.v)

\* no ')' outside a string literal comes before its '('
NoEarlyClose(s) ==
  \A i \in 1..Len(s) :
    s[i] = ")" /\ ~InLiteral(s, i) => OpenParensAt(s, i - 1) > 0

\* where every ')' closes a '(', parseArguments splits at the top-level
\* commas and at no other
WellNestedArgumentsSplit ==
  pc = "returned" /\ returnValue.t = "array" /\ NoEarlyClose(formula) =>
    SplitsAt(formula, TopLevelCommas(formula), returnValue.v)

(***************************************************************************)
(* C28: column letters and column indices                                  *)
(***************************************************************************)
\* the letters as a numeral of base 26 whose digits A..Z stand for 1..26
RECURSIVE BijectiveValueFrom(_, _)
BijectiveValueFrom(s, i) ==
  IF i > Len(s) THEN 0
  ELSE UpperCode(s[i]) * IntPow(26, Len(s) - i) + BijectiveValueFrom(s, i + 1)

BijectiveValue(s) == BijectiveValueFrom(s, 1)

\* cellToIndices of the engine and of the tools read column c from cell
ReadsColumn(cell, c) ==
  /\ cellToIndices(cell) = [ok |-> TRUE, row |-> 0, col |-> c]
  /\ cellToIndicesStrict(cell) = [ok |-> TRUE, row |-> 0, col |-> c]

\* C28: the column of a cell is the bijective base-26 value of its letters
\* minus 1 (A is 0, Z is 25, AA is 26); reading the header of column c gives
\* c back, and the header of the column read from letters s is s, for the
\* headers of the grid and of the tools
ColumnLettersInvertHeaders ==
  /\ pc = "returned" /\ formula.kind = "index" =>
       /\ IsString(returnValue)
       /\ ReadsColumn(returnValue.v \o <<"1">>, formula.index)
       /\ ColumnLetters(formula.index) = returnValue.v
       /\ BijectiveValue(returnValue.v) - 1 = formula.index
  /\ pc = "returned" /\ formula.kind = "letters" =>
       /\ returnValue = Num(BijectiveValue(formula.letters) - 1)
       /\ getColumnHeader(returnValue.v) = formula.letters
       /\ ColumnLetters(returnValue.v) = formula.letters
       /\ formula.letters = <<"A">> => returnValue = Num(0)
       /\ formula.letters = <<"Z">> => returnValue = Num(25)
       /\ formula.letters = <<"A","A">> => returnValue = Num(26)

\* the column of AA1 was read
ColumnOfAARead ==
  /\ pc = "returned"
  /\ formula.kind = "letters"
  /\ formula.letters = <<"A","A">>
  /\ returnValue = Num(26)


(***************************************************************************)
(* C29: the snapshots of the undo history                                  *)
(***************************************************************************)
\* C29: updateCell, undo and redo leave every entry of the history that they
\* do not discard as it was recorded (below the cap of the history an entry
\* keeps its place)
HistoryEntriesUnchanged ==
  [][\A k \in 1..Len(history) :
       k <= currentIndex + 1 => k <= Len(history') /\ history'[k] = history[k]]_vars

\* the entries stay as recorded while the grid's workbook is not an entry's
\* own object, that is until the first undo
UnsharedEntriesUnchanged ==
  [][sharedWith = -1 =>
       \A k \in 1..Len(history) :
         k <= currentIndex + 1 => k <= Len(history') /\ history'[k] = history[k]]_vars

(***************************************************************************)
(* C30: the bounds of the undo history                                     *)
(***************************************************************************)
\* the history holds at most 50 entries and currentIndex is one of them
HistoryInBounds ==
  /\ Len(history) <= 50
  /\ history # <<>> => 0 <= currentIndex /\ currentIndex < Len(history)

\* the step added an entry: the entries up to currentIndex stay, less the
\* oldest one at the cap, the new entry follows them and is the current one
EntryAdded ==
  LET kept == SubSeq(history, 1, currentIndex + 1)
      added == history'[Len(history')]
  IN /\ added.workbook = workbook'
     /\ currentIndex' = Len(history') - 1
     /\ IF Len(kept) = 50
        THEN history' = Tail(kept) \o <<added>>
        ELSE history' = kept \o <<added>>

\* C30: after any sequence of addToHistory, undo and redo the history holds
\* at most 50 entries and, when it is not empty, 0 <= currentIndex <
\* history.length; addToHistory discards the entries after currentIndex, so
\* that no redo is left, and at the cap drops the oldest entry and leaves
\* currentIndex on the newest
HistoryStaysInBounds ==
  /\ []HistoryInBounds
  /\ [][history' # history => EntryAdded]_vars

\* the oldest entry was dropped at the cap
OldestEntryEvicted ==
  /\ Len(history) = 50
  /\ currentIndex = 49
  /\ history[1].workbook # CounterWorkbook(0)
  /\ history[50].workbook = workbook
=============================================================================
